---- MODULE Spec2Model ----
(***************************************************************************)
(* Per-guild playback / queue / filter state machine of the music bot.     *)
(*                                                                         *)
(* The repository holds parallel implementations of the same core:         *)
(*   - domain/entities/playlist.py          the Playlist entity            *)
(*   - domain/services/music_service.py +   the event-driven coordinator   *)
(*     infrastructure/audio/player.py                                      *)
(*   - services/music_service.py +          the config-backed services     *)
(*     services/playback_service.py                                        *)
(*   - cogs/playback_cog.py                  the command cog               *)
(* One guild is modelled; every structure of the code is keyed by          *)
(* guild_id and the handlers compare guild_id before acting.               *)
(***************************************************************************)
EXTENDS Integers, Sequences, FiniteSets, Bags, TLC

\* ---------------------------------------------------------------- bounds
\* Track values that commands may enqueue.
NumTracks == 2
\* Playlist.max_size of the playlist exercised directly (the default is 100).
MaxSize == 3
\* settings.max_queue_size, the max_size of the coordinator's playlists.
MaxQueueSize == 2
\* next_track calls recorded in a row before another operation intervenes.
MaxCalls == 7
\* Filters of FilterService.available_filters that commands may name.
NumFilters == 1
\* AudioPlayer objects created during a run.
MaxPlayers == 2
\* Coroutines suspended inside AudioPlayer.play / _restart_with_filters.
MaxTasks == 1
\* Completion callbacks not yet run, and track_ended publications not yet handled.
MaxPending == 1
\* Songs that commands may enqueue in the config-backed queue.
NumSongs == 3
\* play_song calls recorded after queue repetition started.
MaxPlays == 5
\* Length up to which add_to_queue is exercised (the code sets no limit).
MaxQueue == 2
\* Paused handles that were replaced without being stopped (counted up to this).
MaxLeaked == 1
\* PlaybackService.apply_filters_to_current_song calls inside their sleep.
MaxReapply == 2

\* AudioPlayer.current_volume and UserSettings.default_volume start at 0.5;
\* volumes are counted in hundredths.
DefaultVolume == 50

None == 0
Tracks == 1..NumTracks
Songs == 1..NumSongs
RepeatModes == {"off", "track", "queue"}

VARIABLES
    stack,      \* which implementation the run exercises
    playlist,   \* the guild's Playlist: tracks, current_index, repeat_mode, max_size
    plOp,       \* name of the last Playlist operation called
    plRet,      \* its return value (None for void operations)
    log,        \* results of the next_track calls made in a row
    logStart,   \* current_index when that row of calls began
    served,     \* non-None next_track results since the cursor last started at -1
    fresh       \* TRUE while only appends and OFF-mode next_track followed that start

plVars == <<playlist, plOp, plRet, log, logStart, served, fresh>>

VARIABLES
    players,    \* every AudioPlayer created, in creation (= subscription) order
    reg,        \* MusicService.audio_players[guild]: index into players, 0 if absent
    vc,         \* the voice client's current handle
    leaked,     \* paused handles replaced by voice_client.play without a stop
    cbs,        \* bag of after-callbacks the player threads still have to run
    ev,         \* track_ended publications scheduled on the loop, not yet handled
    tasks,      \* bag of suspended coroutines
    fsActive,   \* FilterService.active_filters[guild], in dict order
    expected,   \* per player: the filter dict it would hold had it applied every
                \* filter event published since it was created
    msRet,      \* the last MusicService command and what it returned: the
                \* boolean, or the track (None if none) with ok its truth value
    qfPub,      \* queue_finished publications made in the last step
    userVolume, \* default_volume stored for the user who requested the tracks
    loading     \* PlaylistLoaderService.loading_tasks[guild]: its status and the
                \* raw entries its worker has still to add

coVars == <<players, reg, vc, leaked, cbs, ev, tasks, fsActive, expected, msRet,
           qfPub, userVolume, loading>>

VARIABLES
    cfg,        \* services.MusicService._playback_states[guild] (PlaybackState)
    original,   \* services.MusicService._original_queues[guild]
    psCurrent,  \* PlaybackService._current_songs[guild]
    config,     \* the guild's persisted config (ConfigManager)
    cfgVc,      \* state of the voice client handed to PlaybackService
    cfgOp,      \* name of the last operation called on these services
    cfgWas,     \* current_song when it was called
    cfgRet,     \* song returned by the last get_next_song
    rep,        \* current song and queue when queue repetition started
    repOn,      \* TRUE while play_song alone has driven the queue since then
    returned,   \* songs get_next_song returned since then
    psHandle,   \* the handle of that voice client: song, filter chain, volume
    psFilter,   \* config["active_filter"], which FilterService combines
    psTasks,    \* bag of PlaybackService.apply_filters_to_current_song calls
                \* inside their sleep
    psRet       \* the PlaybackService call that returned in the last step: its
                \* name, its value and the voice-client calls it made

cfgVars == <<cfg, original, psCurrent, config, cfgVc, cfgOp, cfgWas, cfgRet,
            rep, repOn, returned, psHandle, psFilter, psTasks, psRet>>

VARIABLES
    cogConfig,   \* the guild's config as PlaybackCog reads it: queue, repeat_mode
    cogCurrent,  \* PlaybackCog._current_song (None while the attribute is absent)
    cogOriginal, \* PlaybackCog._original_queue
    cogVc,       \* guild.voice_client: connection and current handle
    cogCbs,      \* bag of after-callbacks whose _play_next has not run yet
    cogTasks,    \* bag of apply_filters_to_current_song calls inside their sleep
    cogRet,      \* the last PlaybackCog call that returned, and its value
    cogOther     \* a second guild served by the same PlaybackCog: its config,
                 \* its voice client, its pending callbacks and sleeping calls

cogVars == <<cogConfig, cogCurrent, cogOriginal, cogVc, cogCbs, cogTasks, cogRet,
            cogOther>>

VARIABLES
    afFilters,   \* SharedManagers.guild_filter_managers[guild].filters: the
                 \* AudioFilter objects in dict order (empty while the guild
                 \* has no manager yet)
    afConfig,    \* config["advanced_filters"] as saved on disk (empty while the
                 \* key is absent)
    afRet        \* the AdvancedFilterManager call that returned in the last
                 \* step: its name and its value

afVars == <<afFilters, afConfig, afRet>>

vars == <<stack, plVars, coVars, cfgVars, cogVars, afVars>>

\* ------------------------------------------------------------- sequences
InSeq(x, s) == \E i \in 1..Len(s) : s[i] = x

RemoveAt(s, i) == SubSeq(s, 1, i - 1) \o SubSeq(s, i + 1, Len(s))

\* list.insert(position, x): negative positions count from the end, and
\* positions outside the list are clamped.
InsertAt(s, position, x) ==
    LET p0 == IF position < 0 THEN position + Len(s) ELSE position
        p  == IF p0 < 0 THEN 0 ELSE IF p0 > Len(s) THEN Len(s) ELSE p0
    IN  SubSeq(s, 1, p) \o <<x>> \o SubSeq(s, p + 1, Len(s))

Perms(s) ==
    { t \in [1..Len(s) -> Tracks] :
        \E f \in [1..Len(s) -> 1..Len(s)] :
            /\ \A i, j \in 1..Len(s) : i # j => f[i] # f[j]
            /\ \A i \in 1..Len(s) : t[i] = s[f[i]] }

\* -------------------------------------------------------------- Playlist
\* The history list is written by next_track and read by nothing; it is
\* left out of the state.
NewPlaylist(max_size) ==
    [tracks |-> <<>>, current_index |-> -1, repeat_mode |-> "off",
     max_size |-> max_size]

\* Playlist.get_current_track; list indexing accepts negative indices.
get_current_track(p) ==
    IF p.current_index = -1 \/ p.tracks = <<>> THEN None
    ELSE IF p.current_index >= 0 /\ p.current_index < Len(p.tracks)
         THEN p.tracks[p.current_index + 1]
    ELSE IF p.current_index < 0 /\ -p.current_index <= Len(p.tracks)
         THEN p.tracks[Len(p.tracks) + p.current_index + 1]
    ELSE None

\* add_track without the capacity check.
add_track_unbounded(p, track, position) ==
    IF position = <<>>
    THEN [ok |-> TRUE, p |-> [p EXCEPT !.tracks = Append(@, track)]]
    ELSE [ok |-> TRUE, p |-> [p EXCEPT !.tracks = InsertAt(@, position[1], track)]]

\* Playlist.add_track: [ok, p]; ok = FALSE stands for the ValueError.  The
\* optional position is <<>> for None and <<i>> for the integer i.
add_track(p, track, position) ==
    IF Len(p.tracks) >= p.max_size THEN [ok |-> FALSE, p |-> p]
    ELSE IF position = <<>>
         THEN [ok |-> TRUE, p |-> [p EXCEPT !.tracks = Append(@, track)]]
    ELSE [ok |-> TRUE, p |-> [p EXCEPT !.tracks = InsertAt(@, position[1], track)]]

\* remove_track without the cursor adjustment.
remove_track_keeping(p, index) ==
    IF ~(0 <= index /\ index < Len(p.tracks)) THEN [ret |-> None, p |-> p]
    ELSE [ret |-> p.tracks[index + 1],
          p   |-> [p EXCEPT !.tracks = RemoveAt(@, index + 1)]]

\* remove_track moving the cursor only for tracks before the current one.
remove_track_before(p, index) ==
    IF ~(0 <= index /\ index < Len(p.tracks)) THEN [ret |-> None, p |-> p]
    ELSE [ret |-> p.tracks[index + 1],
          p   |-> [p EXCEPT !.tracks = RemoveAt(@, index + 1),
                            !.current_index =
                                IF index < p.current_index THEN @ - 1 ELSE @]]

\* Playlist.remove_track: [ret, p].
remove_track(p, index) ==
    IF ~(0 <= index /\ index < Len(p.tracks)) THEN [ret |-> None, p |-> p]
    ELSE [ret |-> p.tracks[index + 1],
          p   |-> [p EXCEPT !.tracks = RemoveAt(@, index + 1),
                            !.current_index =
                                IF index <= p.current_index THEN @ - 1 ELSE @]]

\* next_track wrapping to the first track in every mode but TRACK.
next_track_wrapping(p) ==
    IF p.tracks = <<>> THEN [ret |-> None, p |-> p]
    ELSE IF p.repeat_mode = "track" THEN [ret |-> get_current_track(p), p |-> p]
    ELSE LET q == [p EXCEPT !.current_index =
                        IF @ + 1 < Len(p.tracks) THEN @ + 1 ELSE 0]
         IN  [ret |-> get_current_track(q), p |-> q]

\* next_track stopping at the last track in QUEUE mode as it does in OFF mode.
next_track_stopping(p) ==
    IF p.tracks = <<>> THEN [ret |-> None, p |-> p]
    ELSE IF p.repeat_mode = "track" THEN [ret |-> get_current_track(p), p |-> p]
    ELSE IF p.current_index + 1 < Len(p.tracks)
         THEN LET q == [p EXCEPT !.current_index = @ + 1]
              IN  [ret |-> get_current_track(q), p |-> q]
    ELSE [ret |-> None, p |-> p]

\* next_track advancing in TRACK mode as it does in OFF mode.
next_track_advancing(p) ==
    IF p.tracks = <<>> THEN [ret |-> None, p |-> p]
    ELSE IF p.current_index + 1 < Len(p.tracks)
         THEN LET q == [p EXCEPT !.current_index = @ + 1]
              IN  [ret |-> get_current_track(q), p |-> q]
    ELSE IF p.repeat_mode = "queue"
         THEN LET q == [p EXCEPT !.current_index = 0]
              IN  [ret |-> get_current_track(q), p |-> q]
    ELSE [ret |-> None, p |-> p]

\* Playlist.next_track: [ret, p].
next_track(p) ==
    IF p.tracks = <<>> THEN [ret |-> None, p |-> p]
    ELSE LET cur == get_current_track(p) IN
         IF p.repeat_mode = "track" THEN [ret |-> cur, p |-> p]
         ELSE IF p.current_index + 1 < Len(p.tracks)
              THEN LET q == [p EXCEPT !.current_index = @ + 1]
                   IN  [ret |-> get_current_track(q), p |-> q]
         ELSE IF p.repeat_mode = "queue"
              THEN LET q == [p EXCEPT !.current_index = 0]
                   IN  [ret |-> get_current_track(q), p |-> q]
         ELSE [ret |-> None, p |-> p]

\* Playlist.previous_track: [ret, p].
previous_track(p) ==
    IF p.tracks = <<>> \/ p.current_index <= 0 THEN [ret |-> None, p |-> p]
    ELSE LET q == [p EXCEPT !.current_index = @ - 1]
         IN  [ret |-> get_current_track(q), p |-> q]

\* Playlist.skip_to: [ret, p].
skip_to(p, index) ==
    IF ~(0 <= index /\ index < Len(p.tracks)) THEN [ret |-> None, p |-> p]
    ELSE LET q == [p EXCEPT !.current_index = index]
         IN  [ret |-> get_current_track(q), p |-> q]

\* Playlist.clear.
clear(p) == [p EXCEPT !.tracks = <<>>, !.current_index = -1]

\* Playlist.shuffle_tracks: the set of playlists random.shuffle may leave.
shuffle_tracks(p) ==
    IF Len(p.tracks) <= 1 THEN {p}
    ELSE IF p.current_index >= 0
         THEN { [p EXCEPT !.tracks = <<p.tracks[p.current_index + 1]>> \o rest,
                          !.current_index = 0] :
                    rest \in Perms(RemoveAt(p.tracks, p.current_index + 1)) }
    ELSE { [p EXCEPT !.tracks = t] : t \in Perms(p.tracks) }

\* ------------------------------------------------------------ dict order
\* d[k] = v on a dict keeps the position of an existing key.
DictSet(d, k) == IF InSeq(k, d) THEN d ELSE Append(d, k)

DictDel(d, k) == SelectSeq(d, LAMBDA x : x # k)

\* ------------------------------------------------ coordinator: the state
Registry == <<"bass_boost", "reverb", "slow", "8d", "nightcore", "vaporwave">>
Filters == { Registry[i] : i \in 1..NumFilters }

NoHandle == [state |-> "none", owner |-> 0, track |-> None, chain |-> <<>>,
             volume |-> 0]

\* AudioPlayer.__init__
NewPlayer(voice_client) ==
    [voice_client     |-> voice_client,
     current_track    |-> None,
     applying_filters |-> FALSE,
     active_filters   |-> <<>>,
     current_volume   |-> DefaultVolume,
     volume_set       |-> None]

\* The coordinator's state as one value, threaded through the statements of
\* a handler; over is set when a step would exceed a bound of the model.
World ==
    [pl |-> playlist, players |-> players, reg |-> reg, vc |-> vc,
     leaked |-> leaked, cbs |-> cbs, ev |-> ev, tasks |-> tasks,
     expected |-> expected, qf |-> 0, over |-> FALSE]

Commit(w) ==
    /\ ~w.over
    /\ playlist' = w.pl
    /\ players' = w.players
    /\ reg' = w.reg
    /\ vc' = w.vc
    /\ leaked' = w.leaked
    /\ cbs' = w.cbs
    /\ ev' = w.ev
    /\ tasks' = w.tasks
    /\ expected' = w.expected
    /\ qfPub' = w.qf

Over(w) == [w EXCEPT !.over = TRUE]

AddTask(w, t) ==
    IF BagCardinality(w.tasks) >= MaxTasks THEN Over(w)
    ELSE [w EXCEPT !.tasks = @ (+) SetToBag({t})]

DropTask(w, t) == [w EXCEPT !.tasks = @ (-) SetToBag({t})]

\* ------------------------------------------- the voice client (discord)
vc_is_playing(w) == w.vc.state = "playing"

vc_is_paused(w) == w.vc.state = "paused"

\* VoiceClient.stop: the handle ends and its thread will call `after`.
vc_stop(w, why) ==
    IF w.vc.state = "none" THEN w
    ELSE IF BagCardinality(w.cbs) >= MaxPending THEN Over(w)
    ELSE [w EXCEPT !.vc = NoHandle,
                   !.cbs = @ (+) SetToBag({[p |-> w.vc.owner, why |-> why]})]

\* VoiceClient.play: raises while a handle is playing; a paused handle is
\* replaced without being stopped, its thread stays blocked.
vc_play(w, p, track) ==
    [w EXCEPT !.vc = [state |-> "playing", owner |-> p, track |-> track,
                      chain |-> w.players[p].active_filters,
                      volume |-> w.players[p].current_volume],
              !.leaked = IF w.vc.state = "paused" /\ @ < MaxLeaked THEN @ + 1 ELSE @]

\* ----------------------------------------------------------- AudioPlayer
\* AudioPlayer.is_playing
player_is_playing(w, p) == w.players[p].voice_client /\ vc_is_playing(w)

\* The caller of AudioPlayer.play resumes: _restart_with_filters clears its flag.
play_return(w, flag) ==
    IF flag = 0 THEN w ELSE [w EXCEPT !.players[flag].applying_filters = FALSE]

\* AudioPlayer.play up to the await of _load_user_volume_settings.
play_begin(w, p, track, origin, flag) ==
    IF ~w.players[p].voice_client THEN play_return(w, flag)
    ELSE AddTask([w EXCEPT !.players[p].current_track = track],
                 [p |-> p, track |-> track, pc |-> "load",
                  origin |-> origin, flag |-> flag])

\* AudioPlayer.play from there up to the await of _get_audio_stream_url.
play_stop_old(w, t) ==
    LET w1 == [DropTask(w, t) EXCEPT !.players[t.p].current_volume = userVolume]
        w2 == IF vc_is_playing(w1) THEN vc_stop(w1, t.origin) ELSE w1
    IN  AddTask(w2, [t EXCEPT !.pc = "url"])

\* MusicService._start_playback
start_playback(w, voice_client, origin, flag) ==
    IF w.pl.tracks = <<>> \/ get_current_track(w.pl) = None THEN play_return(w, flag)
    ELSE IF w.reg = 0
         THEN IF Len(w.players) >= MaxPlayers THEN Over(w)
              ELSE LET w1 == [w EXCEPT !.players = Append(@, NewPlayer(voice_client)),
                                       !.expected = Append(@, <<>>),
                                       !.reg = Len(w.players) + 1]
                   IN  play_begin(w1, w1.reg, get_current_track(w.pl), origin, flag)
    ELSE LET w1 == IF voice_client
                   THEN [w EXCEPT !.players[w.reg].voice_client = TRUE] ELSE w
         IN  play_begin(w1, w.reg, get_current_track(w.pl), origin, flag)

\* MusicCog._on_queue_finished: the guild's voice client is disconnected,
\* which stops its handle; the players created so far keep the dead client.
on_queue_finished(w) ==
    LET w1 == vc_stop(w, "disconnect")
    IN  [w1 EXCEPT !.players =
            [i \in 1..Len(w.players) |-> [w.players[i] EXCEPT !.voice_client = FALSE]],
                   !.qf = @ + 1]

\* MusicService._on_track_ended
on_track_ended(w, flag) ==
    IF w.pl.tracks = <<>> THEN play_return(w, flag)
    ELSE LET r  == next_track(w.pl)
             w1 == [w EXCEPT !.pl = r.p]
         IN  IF r.ret # None THEN start_playback(w1, FALSE, "ended", flag)
             ELSE play_return(
                    on_queue_finished([w1 EXCEPT !.pl = clear(@), !.reg = 0]), flag)

\* AudioPlayer.play after the stream URL arrived.
play_install(w, t, outcome) ==
    LET w1 == DropTask(w, t) IN
    IF outcome = "no_url" THEN play_return(w1, t.flag)
    ELSE IF outcome = "error" THEN on_track_ended(w1, t.flag)
    ELSE IF vc_is_playing(w1) THEN on_track_ended(w1, t.flag)
    ELSE play_return(vc_play(w1, t.p, t.track), t.flag)

\* AudioPlayer.stop
player_stop(w, p) ==
    LET w1 == IF player_is_playing(w, p) THEN vc_stop(w, "stop") ELSE w
    IN  [w1 EXCEPT !.players[p].current_track = None]

\* AudioPlayer._restart_with_filters up to the await of asyncio.sleep.
restart_with_filters(w, p) ==
    IF \/ w.players[p].current_track = None
       \/ ~w.players[p].voice_client
       \/ w.players[p].applying_filters
    THEN w
    ELSE LET w1 == [w EXCEPT !.players[p].applying_filters = TRUE]
             w2 == IF vc_is_playing(w1) THEN vc_stop(w1, "restart") ELSE w1
         IN  AddTask(w2, [p |-> p, track |-> w.players[p].current_track,
                          pc |-> "sleep", origin |-> "restart", flag |-> p])

MaybeRestart(w, p) ==
    IF /\ player_is_playing(w, p)
       /\ w.players[p].current_track # None
       /\ ~w.players[p].applying_filters
    THEN restart_with_filters(w, p) ELSE w

\* AudioPlayer._on_filter_applied
on_filter_applied(w, p, f) ==
    LET w0 == [w EXCEPT !.expected[p] = DictSet(@, f)] IN
    IF w.players[p].applying_filters THEN w0
    ELSE MaybeRestart([w0 EXCEPT !.players[p].active_filters = DictSet(@, f)], p)

\* AudioPlayer._on_filter_removed
on_filter_removed(w, p, f) ==
    LET w0 == [w EXCEPT !.expected[p] = DictDel(@, f)] IN
    IF w.players[p].applying_filters THEN w0
    ELSE IF InSeq(f, w.players[p].active_filters)
         THEN MaybeRestart([w0 EXCEPT !.players[p].active_filters = DictDel(@, f)], p)
    ELSE w0

\* AudioPlayer._on_filters_cleared
on_filters_cleared(w, p) ==
    LET w0 == [w EXCEPT !.expected[p] = <<>>] IN
    IF w.players[p].applying_filters THEN w0
    ELSE MaybeRestart([w0 EXCEPT !.players[p].active_filters = <<>>], p)

\* EventBus.publish of a filter event: the subscribed players run their
\* handlers in subscription order, each up to its first suspension.
RECURSIVE publish_filter_event(_, _, _, _)
publish_filter_event(w, i, event, f) ==
    IF i > Len(w.players) \/ w.over THEN w
    ELSE publish_filter_event(
            CASE event = "filter_applied" -> on_filter_applied(w, i, f)
              [] event = "filter_removed" -> on_filter_removed(w, i, f)
              [] OTHER                    -> on_filters_cleared(w, i),
            i + 1, event, f)

\* AudioPlayer._on_playback_finished_sync, run by the thread of a handle.
on_playback_finished_sync(w, c) ==
    LET w1 == [w EXCEPT !.cbs = @ (-) SetToBag({c})]
    IN  IF w.players[c.p].applying_filters THEN w1
        ELSE IF w.players[c.p].current_track = None THEN w1
        ELSE IF w.ev >= MaxPending THEN Over(w1)
        ELSE [w1 EXCEPT !.ev = @ + 1]

\* ------------------------------------------------ Playlist as an object
\* Bookkeeping of the calls made on the Playlist when it is exercised
\* directly; the coordinator leaves it alone.
Observe(op, ret, q) ==
    IF stack # "playlist"
    THEN UNCHANGED <<plOp, plRet, log, logStart, served, fresh>>
    ELSE /\ plOp' = op
         /\ plRet' = ret
         /\ log' = IF op = "next_track" THEN Append(log, ret) ELSE <<>>
         /\ logStart' = IF op = "next_track" THEN logStart ELSE q.current_index
         /\ fresh' = CASE op = "clear" -> TRUE
                       [] op = "append" -> fresh
                       [] op = "next_track" -> fresh /\ playlist.repeat_mode = "off"
                       [] op = "set_repeat_mode" -> fresh
                       [] OTHER -> FALSE
         /\ served' = CASE op = "clear" -> <<>>
                        [] op \in {"append", "set_repeat_mode"} -> served
                        [] op = "next_track" /\ fresh /\ playlist.repeat_mode = "off" ->
                              IF ret # None THEN Append(served, ret) ELSE served
                        [] OTHER -> <<>>

OnPlaylist == stack \in {"playlist", "domain"}

AddTrack(t) ==
    /\ OnPlaylist
    /\ LET r == add_track(playlist, t, <<>>) IN
        /\ playlist' = r.p
        /\ Observe("append", None, r.p)
    /\ UNCHANGED <<stack, coVars, cfgVars, cogVars, afVars>>

AddTrackAt(t, position) ==
    /\ OnPlaylist
    /\ LET r == add_track(playlist, t, <<position>>) IN
        /\ playlist' = r.p
        /\ Observe("insert", None, r.p)
    /\ UNCHANGED <<stack, coVars, cfgVars, cogVars, afVars>>

RemoveTrack(index) ==
    /\ OnPlaylist
    /\ LET r == remove_track(playlist, index) IN
        /\ playlist' = r.p
        /\ Observe("remove_track", r.ret, r.p)
    /\ UNCHANGED <<stack, coVars, cfgVars, cogVars, afVars>>

NextTrack ==
    /\ OnPlaylist
    /\ Len(log) < MaxCalls
    /\ LET r == next_track(playlist) IN
        /\ playlist' = r.p
        /\ Observe("next_track", r.ret, r.p)
    /\ UNCHANGED <<stack, coVars, cfgVars, cogVars, afVars>>

PreviousTrack ==
    /\ OnPlaylist
    /\ LET r == previous_track(playlist) IN
        /\ playlist' = r.p
        /\ Observe("previous_track", r.ret, r.p)
    /\ UNCHANGED <<stack, coVars, cfgVars, cogVars, afVars>>

SkipTo(index) ==
    /\ OnPlaylist
    /\ LET r == skip_to(playlist, index) IN
        /\ playlist' = r.p
        /\ Observe("skip_to", r.ret, r.p)
    /\ UNCHANGED <<stack, coVars, cfgVars, cogVars, afVars>>

Clear ==
    /\ OnPlaylist
    /\ playlist' = clear(playlist)
    /\ Observe("clear", None, clear(playlist))
    /\ UNCHANGED <<stack, coVars, cfgVars, cogVars, afVars>>

ShuffleTracks ==
    /\ OnPlaylist
    /\ \E q \in shuffle_tracks(playlist) :
        /\ playlist' = q
        /\ Observe("shuffle_tracks", None, q)
    /\ UNCHANGED <<stack, coVars, cfgVars, cogVars, afVars>>

\* repeat_mode is a public field; MusicService.set_repeat_mode assigns it.
SetRepeatMode(m) ==
    /\ OnPlaylist
    /\ playlist' = [playlist EXCEPT !.repeat_mode = m]
    /\ Observe("set_repeat_mode", None, playlist)
    /\ UNCHANGED <<stack, coVars, cfgVars, cogVars, afVars>>

Positions == -1..MaxSize

PlaylistOps ==
    \/ \E t \in Tracks : AddTrack(t)
    \/ \E t \in Tracks, position \in Positions : AddTrackAt(t, position)
    \/ \E index \in Positions : RemoveTrack(index)
    \/ NextTrack
    \/ PreviousTrack
    \/ \E index \in Positions : SkipTo(index)
    \/ Clear
    \/ ShuffleTracks
    \/ \E m \in RepeatModes : SetRepeatMode(m)

\* ------------------------------------------------------- initial states
InitPlaylist ==
    /\ playlist = NewPlaylist(IF stack = "domain" THEN MaxQueueSize ELSE MaxSize)
    /\ plOp = "init"
    /\ plRet = None
    /\ log = <<>>
    /\ logStart = -1
    /\ served = <<>>
    /\ fresh = TRUE

InitCoordinator ==
    /\ players = <<>>
    /\ reg = 0
    /\ vc = NoHandle
    /\ leaked = 0
    /\ cbs = EmptyBag
    /\ ev = 0
    /\ tasks = EmptyBag
    /\ fsActive = <<>>
    /\ expected = <<>>
    /\ qfPub = 0
    /\ userVolume = DefaultVolume
    /\ msRet = [op |-> "init", ok |-> FALSE, track |-> None]
    /\ loading = [status |-> "none", rest |-> <<>>]

NoOriginal == [set |-> FALSE, q |-> <<>>]

\* voice_client.source when nothing was handed to voice_client.play.
NoSource == [song |-> None, chain |-> "none", volume |-> 0, after |-> "none"]

NoRet == [op |-> "none", ok |-> FALSE, calls |-> <<>>]

\* PlaybackState defaults; TestConfig / ConfigManager default config.
InitConfigBacked ==
    /\ cfg = [current_song |-> None, queue |-> <<>>, repeat_mode |-> "off",
              volume |-> 75, is_playing |-> FALSE, is_paused |-> FALSE]
    /\ original = NoOriginal
    /\ psCurrent = None
    /\ config = [queue |-> <<>>, repeat_mode |-> "off", volume |-> 75]
    /\ cfgVc = "none"
    /\ cfgOp = "init"
    /\ cfgWas = None
    /\ cfgRet = None
    /\ rep = [cur |-> None, q |-> <<>>]
    /\ repOn = FALSE
    /\ returned = <<>>
    /\ psHandle = NoSource
    /\ psFilter = "none"
    /\ psTasks = EmptyBag
    /\ psRet = NoRet

\* PlaybackCog after construction; the guild's config is persisted, so a run
\* may start under any repeat mode.
InitCog ==
    /\ cogConfig \in [queue : {<<>>},
                      repeat_mode : IF stack = "cog" THEN {"off", "song", "queue"}
                                    ELSE {"off"}]
    /\ cogOther \in [config : [queue : {<<>>},
                               repeat_mode : IF stack = "guilds" THEN {"off", "song"}
                                             ELSE {"off"}],
                     vc : {[connected |-> FALSE, state |-> "none", song |-> None,
                            by |-> "none"]},
                     cbs : {EmptyBag},
                     tasks : {EmptyBag}]
    /\ cogCurrent = None
    /\ cogOriginal = NoOriginal
    /\ cogVc = [connected |-> FALSE, state |-> "none", song |-> None, by |-> "none"]
    /\ cogCbs = EmptyBag
    /\ cogTasks = EmptyBag
    /\ cogRet = "none"

\* ------------------------------ AdvancedFilterManager: registry and presets

\* A Python number: its value in hundredths and whether it is a float.
PyInt(n) == [num |-> n * 100, float |-> FALSE]

PyFloat(hundredths) == [num |-> hundredths, float |-> TRUE]

\* str(value) as FilterParameter values are rendered into the template.
str(value) ==
    IF ~value.float THEN ToString(value.num \div 100)
    ELSE ToString(value.num \div 100) \o "."
            \o (IF value.num % 10 = 0 THEN ToString((value.num % 100) \div 10)
                ELSE ToString((value.num % 100) \div 10)
                        \o ToString(value.num % 10))

FilterParameter(name, value, min_val, max_val) ==
    [name |-> name, value |-> value, min_val |-> min_val, max_val |-> max_val]

\* An ffmpeg_template is kept as its pieces: a literal and the placeholder
\* that follows it ("" when the literal ends the template).
Piece(lit, placeholder) == [lit |-> lit, placeholder |-> placeholder]

AudioFilter(name, ffmpeg_template, parameters) ==
    [name |-> name, ffmpeg_template |-> ffmpeg_template, enabled |-> FALSE,
     parameters |-> parameters]

_initialize_default_filters ==
    << AudioFilter("bassboost",
          <<Piece("bass=g=", "gain"), Piece(",dynaudnorm=f=", "frequency")>>,
          <<FilterParameter("gain", PyInt(15), PyInt(0), PyInt(30)),
            FilterParameter("frequency", PyInt(200), PyInt(100), PyInt(500))>>),
       AudioFilter("nightcore",
          <<Piece("atempo=", "tempo"), Piece(",asetrate=44100*", "pitch_factor"),
            Piece(",bass=g=", "bass_gain")>>,
          <<FilterParameter("tempo", PyFloat(130), PyFloat(100), PyFloat(200)),
            FilterParameter("pitch_factor", PyFloat(130), PyFloat(100), PyFloat(200)),
            FilterParameter("bass_gain", PyInt(5), PyInt(0), PyInt(15))>>),
       AudioFilter("slowed",
          <<Piece("atempo=", "tempo"), Piece(",aecho=", "in_gain"),
            Piece(":", "out_gain"), Piece(":", "delay"), Piece(":", "decay")>>,
          <<FilterParameter("tempo", PyFloat(80), PyFloat(50), PyFloat(100)),
            FilterParameter("in_gain", PyFloat(80), PyFloat(10), PyFloat(100)),
            FilterParameter("out_gain", PyFloat(90), PyFloat(10), PyFloat(100)),
            FilterParameter("delay", PyInt(1000), PyInt(100), PyInt(2000)),
            FilterParameter("decay", PyFloat(30), PyFloat(10), PyFloat(90))>>),
       AudioFilter("8d",
          <<Piece("apulsator=hz=", "frequency")>>,
          <<FilterParameter("frequency", PyFloat(20), PyFloat(10), PyFloat(200))>>),
       AudioFilter("equalizer",
          <<Piece("equalizer=f=", "freq1"), Piece(":t=h:w=", "width1"),
            Piece(":g=", "gain1"),
            Piece(":f=", "freq2"), Piece(":t=h:w=", "width2"),
            Piece(":g=", "gain2"),
            Piece(":f=", "freq3"), Piece(":t=h:w=", "width3"),
            Piece(":g=", "gain3")>>,
          <<FilterParameter("freq1", PyInt(100), PyInt(20), PyInt(500)),
            FilterParameter("gain1", PyInt(0), PyInt(-20), PyInt(20)),
            FilterParameter("width1", PyInt(50), PyInt(10), PyInt(200)),
            FilterParameter("freq2", PyInt(1000), PyInt(500), PyInt(5000)),
            FilterParameter("gain2", PyInt(0), PyInt(-20), PyInt(20)),
            FilterParameter("width2", PyInt(100), PyInt(10), PyInt(500)),
            FilterParameter("freq3", PyInt(8000), PyInt(2000), PyInt(20000)),
            FilterParameter("gain3", PyInt(0), PyInt(-20), PyInt(20)),
            FilterParameter("width3", PyInt(200), PyInt(10), PyInt(1000))>>),
       AudioFilter("overdrive",
          <<Piece("volume=", "drive"), Piece("dB,alimiter=level_in=", "level_in"),
            Piece(":level_out=", "level_out"), Piece(":limit=", "limit"),
            Piece(":attack=5:release=50,volume=", "output"), Piece("dB", "")>>,
          <<FilterParameter("drive", PyInt(12), PyInt(3), PyInt(30)),
            FilterParameter("level_in", PyFloat(100), PyFloat(50), PyFloat(200)),
            FilterParameter("level_out", PyFloat(80), PyFloat(30), PyFloat(100)),
            FilterParameter("limit", PyFloat(90), PyFloat(50), PyFloat(98)),
            FilterParameter("output", PyInt(-3), PyInt(-10), PyInt(3))>>),
       AudioFilter("compressor",
          <<Piece("acompressor=threshold=", "threshold"), Piece(":ratio=", "ratio"),
            Piece(":attack=", "attack"), Piece(":release=", "release")>>,
          <<FilterParameter("threshold", PyFloat(50), PyFloat(10), PyFloat(100)),
            FilterParameter("ratio", PyInt(4), PyInt(1), PyInt(20)),
            FilterParameter("attack", PyInt(5), PyInt(1), PyInt(100)),
            FilterParameter("release", PyInt(50), PyInt(10), PyInt(1000))>>) >>

\* FilterPreset.add_filter_config: one entry of preset.filters.
add_filter_config(filter_name, enabled, parameters) ==
    [filter_name |-> filter_name, enabled |-> enabled, parameters |-> parameters]

FilterPreset(name, filters) == [name |-> name, filters |-> filters]

_initialize_default_presets ==
    << FilterPreset("gaming",
          <<add_filter_config("compressor", TRUE,
                <<<<"threshold", PyFloat(30)>>, <<"ratio", PyInt(6)>>,
                  <<"attack", PyInt(2)>>, <<"release", PyInt(30)>>>>),
            add_filter_config("equalizer", TRUE,
                <<<<"freq2", PyInt(2000)>>, <<"gain2", PyInt(3)>>,
                  <<"freq3", PyInt(6000)>>, <<"gain3", PyInt(2)>>>>)>>),
       FilterPreset("music",
          <<add_filter_config("bassboost", TRUE,
                <<<<"gain", PyInt(8)>>, <<"frequency", PyInt(150)>>>>),
            add_filter_config("equalizer", TRUE,
                <<<<"freq1", PyInt(80)>>, <<"gain1", PyInt(2)>>,
                  <<"freq3", PyInt(12000)>>, <<"gain3", PyInt(1)>>>>)>>),
       FilterPreset("vocal",
          <<add_filter_config("compressor", TRUE,
                <<<<"threshold", PyFloat(60)>>, <<"ratio", PyInt(3)>>,
                  <<"attack", PyInt(1)>>, <<"release", PyInt(100)>>>>),
            add_filter_config("equalizer", TRUE,
                <<<<"freq2", PyInt(1500)>>, <<"gain2", PyInt(4)>>,
                  <<"width2", PyInt(200)>>>>)>>) >>

\* Lookup in a dict kept as a sequence of named entries: the index of the
\* entry called name, 0 when the key is absent.
IndexOf(dict, name) ==
    IF \E i \in DOMAIN dict : dict[i].name = name
    THEN CHOOSE i \in DOMAIN dict : dict[i].name = name
    ELSE 0

\* A set_value that clamps into min..max instead of rejecting.
set_value_clamped(param, value) ==
    [ok |-> TRUE,
     param |-> [param EXCEPT !.value =
                    IF value.num < param.min_val.num THEN param.min_val
                    ELSE IF value.num > param.max_val.num THEN param.max_val
                    ELSE value]]

\* FilterParameter.set_value: the value is stored only inside min..max.
set_value(param, value) ==
    IF param.min_val.num <= value.num /\ value.num <= param.max_val.num
    THEN [ok |-> TRUE, param |-> [param EXCEPT !.value = value]]
    ELSE [ok |-> FALSE, param |-> param]

\* AudioFilter.set_parameter
set_parameter(filter_obj, param_name, value) ==
    LET i == IndexOf(filter_obj.parameters, param_name) IN
    IF i = 0 THEN [ok |-> FALSE, filter |-> filter_obj]
    ELSE LET r == set_value(filter_obj.parameters[i], value) IN
         [ok |-> r.ok,
          filter |-> [filter_obj EXCEPT !.parameters[i] = r.param]]

\* AdvancedFilterManager.set_filter_parameter on the registry fs: the
\* registry afterwards and the value returned.
set_filter_parameter(fs, filter_name, param_name, value) ==
    LET i == IndexOf(fs, filter_name) IN
    IF i = 0 THEN [ok |-> FALSE, filters |-> fs]
    ELSE LET r == set_parameter(fs[i], param_name, value) IN
         [ok |-> r.ok, filters |-> [fs EXCEPT ![i] = r.filter]]

\* An enable_filter that re-inserts the filter, moving it to the end of the
\* dict.
enable_filter_reinserting(fs, name) ==
    LET i == IndexOf(fs, name) IN
    IF i = 0 THEN [ok |-> FALSE, filters |-> fs]
    ELSE [ok |-> TRUE,
          filters |-> Append(SelectSeq(fs, LAMBDA f : f.name # name),
                             [fs[i] EXCEPT !.enabled = TRUE])]

enable_filter(fs, name) ==
    LET i == IndexOf(fs, name) IN
    IF i = 0 THEN [ok |-> FALSE, filters |-> fs]
    ELSE [ok |-> TRUE, filters |-> [fs EXCEPT ![i].enabled = TRUE]]

\* A disable_filter that also puts the filter's parameters back to their
\* defaults.
disable_filter_resetting(fs, name) ==
    LET i == IndexOf(fs, name) IN
    IF i = 0 THEN [ok |-> FALSE, filters |-> fs]
    ELSE [ok |-> TRUE,
          filters |-> [fs EXCEPT ![i] = _initialize_default_filters[
                                  IndexOf(_initialize_default_filters, name)]]]

disable_filter(fs, name) ==
    LET i == IndexOf(fs, name) IN
    IF i = 0 THEN [ok |-> FALSE, filters |-> fs]
    ELSE [ok |-> TRUE, filters |-> [fs EXCEPT ![i].enabled = FALSE]]

\* AudioFilter.get_ffmpeg_filter: the template with every placeholder
\* replaced by str() of its parameter's value; "" while disabled.
RECURSIVE Render(_, _, _)
Render(filter_obj, k, acc) ==
    IF k > Len(filter_obj.ffmpeg_template) THEN acc
    ELSE LET piece == filter_obj.ffmpeg_template[k]
             i == IndexOf(filter_obj.parameters, piece.placeholder)
         IN Render(filter_obj, k + 1,
                   acc \o piece.lit
                       \o (IF i = 0 THEN piece.placeholder
                           ELSE str(filter_obj.parameters[i].value)))

get_ffmpeg_filter(filter_obj) ==
    IF ~filter_obj.enabled THEN "" ELSE Render(filter_obj, 1, "")

\* ",".join(filter(None, pieces))
RECURSIVE join(_, _)
join(sep, pieces) ==
    IF pieces = <<>> THEN ""
    ELSE IF Head(pieces) = "" THEN join(sep, Tail(pieces))
    ELSE LET rest == join(sep, Tail(pieces)) IN
         IF rest = "" THEN Head(pieces) ELSE Head(pieces) \o sep \o rest

\* AdvancedFilterManager.get_combined_ffmpeg_filter
get_combined_ffmpeg_filter_of(fs) ==
    LET enabled_filters ==
            [i \in DOMAIN SelectSeq(fs, LAMBDA f : f.enabled) |->
                get_ffmpeg_filter(SelectSeq(fs, LAMBDA f : f.enabled)[i])]
    IN IF enabled_filters # <<>> THEN join(",", enabled_filters) ELSE ""

\* AdvancedFilterManager.get_enabled_filters
get_enabled_filters(fs) ==
    LET on == SelectSeq(fs, LAMBDA f : f.enabled) IN
    [i \in DOMAIN on |-> on[i].name]

\* The inner loop of apply_preset: each configured parameter goes through
\* set_filter_parameter, whose result is dropped.
RECURSIVE apply_parameters(_, _, _)
apply_parameters(fs, filter_name, parameters) ==
    IF parameters = <<>> THEN fs
    ELSE apply_parameters(
            set_filter_parameter(fs, filter_name, Head(parameters)[1],
                                 Head(parameters)[2]).filters,
            filter_name, Tail(parameters))

\* The outer loop of apply_preset over preset.filters.
RECURSIVE apply_configs(_, _)
apply_configs(fs, configs) ==
    IF configs = <<>> THEN fs
    ELSE LET conf == Head(configs)
             i == IndexOf(fs, conf.filter_name)
         IN IF i = 0 THEN apply_configs(fs, Tail(configs))
            ELSE apply_configs(
                    apply_parameters([fs EXCEPT ![i].enabled = conf.enabled],
                                     conf.filter_name, conf.parameters),
                    Tail(configs))

\* An apply_preset that does not disable the other filters first.
apply_preset_keeping(fs, preset_name) ==
    LET p == IndexOf(_initialize_default_presets, preset_name) IN
    IF p = 0 THEN [ok |-> FALSE, filters |-> fs]
    ELSE [ok |-> TRUE,
          filters |-> apply_configs(fs, _initialize_default_presets[p].filters)]

\* AdvancedFilterManager.apply_preset
apply_preset(fs, preset_name) ==
    LET p == IndexOf(_initialize_default_presets, preset_name) IN
    IF p = 0 THEN [ok |-> FALSE, filters |-> fs]
    ELSE [ok |-> TRUE,
          filters |-> apply_configs([i \in DOMAIN fs |-> [fs[i] EXCEPT !.enabled = FALSE]],
                                    _initialize_default_presets[p].filters)]

\* FilterParameter.to_dict / AudioFilter.to_dict / AdvancedFilterManager.to_dict:
\* dicts keyed by name, kept as sequences of <<key, value>> in dict order.
to_dict(fs) ==
    [filters |->
        [i \in DOMAIN fs |->
            <<fs[i].name,
              [name |-> fs[i].name, enabled |-> fs[i].enabled,
               ffmpeg_template |-> fs[i].ffmpeg_template,
               parameters |->
                  [k \in DOMAIN fs[i].parameters |->
                      <<fs[i].parameters[k].name, fs[i].parameters[k]>>]]>>],
     presets |->
        [i \in DOMAIN _initialize_default_presets |->
            <<_initialize_default_presets[i].name, _initialize_default_presets[i]>>]]

\* SharedManagers after construction: no guild has a filter manager and the
\* guild's config has no "advanced_filters" key.
NoManager == <<>>

NoSaved == [filters |-> <<>>, presets |-> <<>>]

InitAdvanced ==
    /\ afFilters = NoManager
    /\ afConfig = NoSaved
    /\ afRet = [op |-> "none", ok |-> FALSE, args |-> <<>>]

\* ------------------- the Playlist entity exercised through its methods
InitAll ==
    InitPlaylist /\ InitCoordinator /\ InitConfigBacked /\ InitCog /\ InitAdvanced

InitOnPlaylist == stack = "playlist" /\ InitAll

SpecPlaylist == InitOnPlaylist /\ [][PlaylistOps]_vars

\* ------------------------------------------ coordinator: the operations
OnDomain == stack = "domain"

Quiet ==
    UNCHANGED <<stack, plOp, plRet, log, logStart, served, fresh, userVolume,
                loading, cfgVars, cogVars, afVars>>

\* The value a MusicService command hands back to its caller.
Returns(op, ok, track) == msRet' = [op |-> op, ok |-> ok, track |-> track]

\* MusicService.play
Play(t) ==
    /\ OnDomain
    /\ LET r == add_track(playlist, t, <<>>) IN
        /\ IF ~r.ok THEN Commit(World)
           ELSE IF get_current_track(r.p) # None THEN Commit([World EXCEPT !.pl = r.p])
           ELSE Commit(start_playback(
                [World EXCEPT !.pl = [r.p EXCEPT !.current_index = Len(r.p.tracks) - 1]],
                TRUE, "play", 0))
        /\ Returns("play", r.ok, None)
    /\ UNCHANGED fsActive
    /\ Quiet

\* MusicService.stop
stop(w) ==
    LET w1 == IF w.reg # 0 THEN [player_stop(w, w.reg) EXCEPT !.reg = 0] ELSE w
    IN  [w1 EXCEPT !.pl = clear(@)]

Stop ==
    /\ OnDomain
    /\ Commit(stop(World))
    /\ Returns("stop", TRUE, None)
    /\ UNCHANGED fsActive
    /\ Quiet

\* MusicService.skip
Skip ==
    /\ OnDomain
    /\ IF playlist.tracks = <<>>
       THEN Commit(World)
       ELSE LET r  == next_track(playlist)
                w1 == [World EXCEPT !.pl = r.p]
            IN  IF r.ret # None THEN Commit(start_playback(w1, FALSE, "skip", 0))
                ELSE Commit(stop(w1))
    /\ LET ret == IF playlist.tracks = <<>> THEN None ELSE next_track(playlist).ret
       IN  Returns("skip", ret # None, ret)
    /\ UNCHANGED fsActive
    /\ Quiet

\* MusicService.pause -> AudioPlayer.pause
Pause ==
    /\ OnDomain
    /\ vc' = IF reg # 0 /\ player_is_playing(World, reg)
             THEN [vc EXCEPT !.state = "paused"] ELSE vc
    /\ Returns("pause", reg # 0, None)
    /\ qfPub' = 0
    /\ UNCHANGED <<playlist, players, reg, leaked, cbs, ev, tasks, expected, fsActive>>
    /\ Quiet

\* MusicService.resume -> AudioPlayer.resume
Resume ==
    /\ OnDomain
    /\ vc' = IF reg # 0 /\ players[reg].voice_client /\ vc_is_paused(World)
             THEN [vc EXCEPT !.state = "playing"] ELSE vc
    /\ Returns("resume", reg # 0, None)
    /\ qfPub' = 0
    /\ UNCHANGED <<playlist, players, reg, leaked, cbs, ev, tasks, expected, fsActive>>
    /\ Quiet

\* FilterService.apply_filter
ApplyFilter(f) ==
    /\ OnDomain
    /\ UNCHANGED msRet
    /\ fsActive' = DictSet(fsActive, f)
    /\ Commit(publish_filter_event(World, 1, "filter_applied", f))
    /\ Quiet

\* FilterService.remove_filter
RemoveFilter(f) ==
    /\ OnDomain
    /\ UNCHANGED msRet
    /\ InSeq(f, fsActive)
    /\ fsActive' = DictDel(fsActive, f)
    /\ Commit(publish_filter_event(World, 1, "filter_removed", f))
    /\ Quiet

\* FilterService.clear_all_filters
ClearFilters ==
    /\ OnDomain
    /\ UNCHANGED msRet
    /\ fsActive # <<>>
    /\ fsActive' = <<>>
    /\ Commit(publish_filter_event(World, 1, "filters_cleared", "all"))
    /\ Quiet

\* The track of the playing handle runs out.
NaturalEnd ==
    /\ OnDomain
    /\ UNCHANGED msRet
    /\ vc.state = "playing"
    /\ Commit(vc_stop(World, "natural"))
    /\ UNCHANGED fsActive
    /\ Quiet

\* A player thread runs the `after` callback of its ended handle.
PlaybackFinished(c) ==
    /\ OnDomain
    /\ UNCHANGED msRet
    /\ BagIn(c, cbs)
    /\ Commit(on_playback_finished_sync(World, c))
    /\ UNCHANGED fsActive
    /\ Quiet

\* The loop runs a scheduled _on_playback_finished_async: track_ended is
\* published and MusicService._on_track_ended handles it.
TrackEnded ==
    /\ OnDomain
    /\ UNCHANGED msRet
    /\ ev > 0
    /\ Commit(on_track_ended([World EXCEPT !.ev = @ - 1], 0))
    /\ UNCHANGED fsActive
    /\ Quiet

\* A suspended coroutine resumes.
VolumeLoaded(t) ==
    /\ OnDomain
    /\ UNCHANGED msRet
    /\ BagIn(t, tasks) /\ t.pc = "load"
    /\ Commit(play_stop_old(World, t))
    /\ UNCHANGED fsActive
    /\ Quiet

StreamResolved(t, outcome) ==
    /\ OnDomain
    /\ UNCHANGED msRet
    /\ BagIn(t, tasks) /\ t.pc = "url"
    /\ Commit(play_install(World, t, outcome))
    /\ UNCHANGED fsActive
    /\ Quiet

SleepDone(t) ==
    /\ OnDomain
    /\ UNCHANGED msRet
    /\ BagIn(t, tasks) /\ t.pc = "sleep"
    /\ Commit(play_begin(DropTask(World, t), t.p, t.track, "restart", t.flag))
    /\ UNCHANGED fsActive
    /\ Quiet

Outcomes == {"ok", "no_url", "error"}

\* ------------------------- the event-driven coordinator of one guild
Init == stack = "domain" /\ InitAll

PlaybackOps ==
    \/ \E t \in Tracks : Play(t)
    \/ Stop
    \/ Skip
    \/ Pause
    \/ Resume
    \/ NaturalEnd
    \/ \E c \in BagToSet(cbs) : PlaybackFinished(c)
    \/ TrackEnded
    \/ \E t \in BagToSet(tasks) : VolumeLoaded(t)
    \/ \E t \in BagToSet(tasks), outcome \in Outcomes : StreamResolved(t, outcome)

Next == PlaybackOps \/ \E m \in RepeatModes : SetRepeatMode(m)

Spec == Init /\ [][Next]_vars

\* ------------------------------------ the progressive playlist loader
\* PlaylistLoadingTask.initial_batch_size and ahead_loading_size: the tracks
\* start_playlist_loading adds itself, and those of one round of the worker.
InitialBatchSize == 1

AheadLoadingSize == 1

\* The entries of the playlists the loader is given.
MaxEntries == 2

NoLoading == [status |-> "none", rest |-> <<>>]

\* MusicService.play as the loader calls it: the world after the call and the
\* boolean it returns.
music_service_play(w, t) ==
    LET r == add_track(w.pl, t, <<>>) IN
        IF ~r.ok THEN [ok |-> FALSE, w |-> w]
        ELSE IF get_current_track(r.p) # None
        THEN [ok |-> TRUE, w |-> [w EXCEPT !.pl = r.p]]
        ELSE [ok |-> TRUE,
              w |-> start_playback(
                  [w EXCEPT !.pl = [r.p EXCEPT !.current_index = Len(r.p.tracks) - 1]],
                  TRUE, "play", 0)]

LoaderQuiet ==
    UNCHANGED <<stack, plOp, plRet, log, logStart, served, fresh, userVolume,
                fsActive, cfgVars, cogVars, afVars>>

\* PlaylistLoaderService.start_playlist_loading for a playlist of the given
\* entries, issued by the user's play command: the initial batch is added
\* through MusicService.play and the worker is created for the rest.
StartPlaylistLoading(entries) ==
    /\ OnDomain
    /\ loading.status # "loading"
    /\ tasks = EmptyBag
    /\ LET r == music_service_play(World, entries[InitialBatchSize]) IN
        /\ Commit(r.w)
        /\ Returns("play", r.ok, None)
    /\ loading' = [status |-> "loading",
                   rest |-> SubSeq(entries, InitialBatchSize + 1, Len(entries))]
    /\ LoaderQuiet

\* One round of PlaylistLoaderService._background_loading_worker: the next
\* batch is loaded and added through MusicService.play; the loop ends when no
\* entry is left.  It runs once the earlier calls of play have returned.
BackgroundLoadingWorker ==
    /\ OnDomain
    /\ loading.status = "loading"
    /\ tasks = EmptyBag
    /\ IF loading.rest = <<>>
       THEN /\ loading' = [loading EXCEPT !.status = "completed"]
            /\ Commit(World)
       ELSE /\ Commit(music_service_play(World, loading.rest[AheadLoadingSize]).w)
            /\ loading' = [loading EXCEPT
                              !.rest = SubSeq(@, AheadLoadingSize + 1, Len(@))]
    /\ UNCHANGED msRet
    /\ LoaderQuiet

\* PlaylistLoaderService.cancel_loading
CancelLoading ==
    /\ OnDomain
    /\ loading.status # "none"
    /\ loading' = NoLoading
    /\ Commit(World)
    /\ UNCHANGED msRet
    /\ LoaderQuiet

\* The commands that start and stop playback, with a playlist being loaded.
NextLoader ==
    \/ \E t \in Tracks : Play(t)
    \/ Stop
    \/ NaturalEnd
    \/ \E c \in BagToSet(cbs) : PlaybackFinished(c)
    \/ TrackEnded
    \/ \E t \in BagToSet(tasks) : VolumeLoaded(t)
    \/ \E t \in BagToSet(tasks) : StreamResolved(t, "ok")
    \/ \E entries \in [1..MaxEntries -> Tracks] : StartPlaylistLoading(entries)
    \/ BackgroundLoadingWorker
    \/ CancelLoading

SpecLoader == Init /\ [][NextLoader]_vars

\* --------------- the coordinator under filter commands, repeat mode OFF
FilterOps ==
    \/ \E f \in Filters : ApplyFilter(f)
    \/ \E f \in Filters : RemoveFilter(f)
    \/ ClearFilters
    \/ \E t \in BagToSet(tasks) : SleepDone(t)

NextFilters ==
    \/ \E t \in Tracks : Play(t)
    \/ Stop
    \/ Pause
    \/ Resume
    \/ NaturalEnd
    \/ \E c \in BagToSet(cbs) : PlaybackFinished(c)
    \/ TrackEnded
    \/ \E t \in BagToSet(tasks) : VolumeLoaded(t)
    \/ \E t \in BagToSet(tasks) : StreamResolved(t, "ok")
    \/ FilterOps

SpecFilters == Init /\ [][NextFilters]_vars

\* ------------- the coordinator under filter commands on several filters
NumChainFilters == 2

ChainFilters == { Registry[i] : i \in 1..NumChainFilters }

\* get_ffmpeg_filter of the instance FilterService builds for a filter name
\* with the constructor defaults.
instance_ffmpeg_filter(filter_name) ==
    CASE filter_name = "bass_boost" -> "bass=g=10"
      [] filter_name = "reverb"     -> "aecho=0.8:0.9:500:0.5"
      [] filter_name = "slow"       -> "atempo=0.8,rubberband=pitch=1.0"
      [] filter_name = "8d"         -> "apulsator=hz=1.0:mode=sine"
      [] filter_name = "nightcore"  -> "atempo=1.3,rubberband=pitch=1.2"
      [] filter_name = "vaporwave"  -> "atempo=0.8,rubberband=pitch=0.9"

\* AudioPlayer._build_ffmpeg_filter_chain over active_filters in dict order.
_build_ffmpeg_filter_chain(active_filters) ==
    join(",", [i \in DOMAIN active_filters |->
                  instance_ffmpeg_filter(active_filters[i])])

NextChain ==
    \/ \E t \in Tracks : Play(t)
    \/ \E f \in ChainFilters : ApplyFilter(f)
    \/ \E f \in ChainFilters : RemoveFilter(f)
    \/ \E c \in BagToSet(cbs) : PlaybackFinished(c)
    \/ TrackEnded
    \/ \E t \in BagToSet(tasks) : VolumeLoaded(t)
    \/ \E t \in BagToSet(tasks) : StreamResolved(t, "ok")
    \/ \E t \in BagToSet(tasks) : SleepDone(t)

SpecChain == Init /\ [][NextChain]_vars

\* ------------------ the coordinator under volume and filter commands
\* Volume arguments, in hundredths: inside 0.0..1.0, between 1.0 and 2.0,
\* and above 2.0.
DomainVolumes == {100, 150, 250}

\* MusicService.set_volume; by_requester: the call comes from MusicCog's
\* volume command issued by the user who requested the tracks, which then
\* stores the value as that user's default_volume.  volume_set remembers the
\* value of the player's last set_volume.
SetVolume(volume, by_requester) ==
    /\ OnDomain
    /\ LET success == volume <= 100 /\ reg # 0 IN
        /\ players' = IF success
                       THEN [players EXCEPT ![reg].current_volume = volume,
                                            ![reg].volume_set = volume]
                       ELSE players
        /\ vc' = IF success /\ vc.state # "none" /\ vc.owner = reg
                  THEN [vc EXCEPT !.volume = volume] ELSE vc
        /\ userVolume' = IF success /\ by_requester THEN volume ELSE userVolume
        /\ Returns("set_volume", success, None)
    /\ qfPub' = 0
    /\ UNCHANGED <<playlist, reg, leaked, cbs, ev, tasks, expected, fsActive>>
    /\ UNCHANGED <<stack, plOp, plRet, log, logStart, served, fresh, loading,
                   cfgVars, cogVars, afVars>>

NextVolume ==
    \/ \E t \in Tracks : Play(t)
    \/ \E volume \in DomainVolumes, by_requester \in BOOLEAN :
          SetVolume(volume, by_requester)
    \/ \E f \in Filters : ApplyFilter(f)
    \/ ClearFilters
    \/ \E c \in BagToSet(cbs) : PlaybackFinished(c)
    \/ TrackEnded
    \/ \E t \in BagToSet(tasks) : VolumeLoaded(t)
    \/ \E t \in BagToSet(tasks), outcome \in Outcomes : StreamResolved(t, outcome)
    \/ \E t \in BagToSet(tasks) : SleepDone(t)

SpecVolume == Init /\ [][NextVolume]_vars

\* ------------------------------------------- config-backed services
OnConfig == stack = "config"

\* The dict save_playback_state writes for a SongInfo, and its reading back.
SongDict(song) == [title |-> song, url |-> song]

\* A save_playback_state that writes the default volume instead of the
\* state's.
save_playback_state_default_volume(st) ==
    [queue       |-> [i \in 1..Len(st.queue) |-> SongDict(st.queue[i])],
     repeat_mode |-> st.repeat_mode,
     volume      |-> 75]

\* services.MusicService.save_playback_state
save_playback_state(st) ==
    [queue       |-> [i \in 1..Len(st.queue) |-> SongDict(st.queue[i])],
     repeat_mode |-> st.repeat_mode,
     volume      |-> st.volume]

\* get_next_song refilling the queue with the whole recorded queue.
get_next_song_refilling_all(st, orig) ==
    IF st.repeat_mode = "song" /\ st.current_song # None
    THEN [ret |-> st.current_song, st |-> st, orig |-> orig, saved |-> FALSE]
    ELSE IF st.queue = <<>>
    THEN [ret |-> None, st |-> st, orig |-> orig, saved |-> FALSE]
    ELSE LET next_song == Head(st.queue)
             popped    == Tail(st.queue)
         IN  IF st.repeat_mode # "queue"
             THEN [ret |-> next_song, st |-> [st EXCEPT !.queue = popped],
                   orig |-> orig, saved |-> TRUE]
             ELSE LET orig1 == IF ~orig.set /\ st.current_song # None
                               THEN [set |-> TRUE, q |-> <<st.current_song>> \o popped]
                               ELSE orig
                      queue1 == IF popped = <<>> /\ orig1.set
                                THEN orig1.q ELSE popped
                  IN  [ret |-> next_song, st |-> [st EXCEPT !.queue = queue1],
                       orig |-> orig1, saved |-> TRUE]

\* services.MusicService.get_next_song: [ret, st, orig, saved].
get_next_song(st, orig) ==
    IF st.repeat_mode = "song" /\ st.current_song # None
    THEN [ret |-> st.current_song, st |-> st, orig |-> orig, saved |-> FALSE]
    ELSE IF st.queue = <<>>
    THEN [ret |-> None, st |-> st, orig |-> orig, saved |-> FALSE]
    ELSE LET next_song == Head(st.queue)
             popped    == Tail(st.queue)
         IN  IF st.repeat_mode # "queue"
             THEN [ret |-> next_song, st |-> [st EXCEPT !.queue = popped],
                   orig |-> orig, saved |-> TRUE]
             ELSE LET orig1 == IF ~orig.set /\ st.current_song # None
                               THEN [set |-> TRUE, q |-> <<st.current_song>> \o popped]
                               ELSE orig
                      queue1 == IF popped = <<>> /\ orig1.set
                                THEN Tail(orig1.q) ELSE popped
                  IN  [ret |-> next_song, st |-> [st EXCEPT !.queue = queue1],
                       orig |-> orig1, saved |-> TRUE]

\* services.MusicService.set_current_song
set_current_song(st, song) ==
    [st EXCEPT !.current_song = song, !.is_playing = TRUE, !.is_paused = FALSE]

\* services.MusicService.clear_current_song
clear_current_song(st) ==
    [st EXCEPT !.current_song = None, !.is_playing = FALSE, !.is_paused = FALSE]

\* The songs queue repetition has to go through, in order.
Cycle(r) == r.q \o (IF r.cur # None THEN <<r.cur>> ELSE <<>>)

NoRep == [cur |-> None, q |-> <<>>]

Noted(op) == cfgOp' = op /\ cfgWas' = cfg.current_song

\* A step that is no PlaybackService call and leaves the voice client alone.
PsIdle ==
    /\ psRet' = NoRet
    /\ UNCHANGED <<psHandle, psFilter, psTasks>>

\* FilterService.get_combined_ffmpeg_filter and get_volume, as
\* _create_audio_source reads them for the source of song.
get_combined_ffmpeg_filter(active_filter) ==
    IF active_filter = "bassboost" THEN "bass=g=15,dynaudnorm=f=200" ELSE "none"

\* A source built without reading the filters.
create_audio_source_unfiltered(song, conf) ==
    [song |-> song, chain |-> "none", volume |-> conf.volume]

\* PlaybackService._create_audio_source for song under the config conf.
create_audio_source(song, conf) ==
    [song |-> song, chain |-> get_combined_ffmpeg_filter(psFilter),
     volume |-> conf.volume]

\* voice_client.play(source, after=after): the handle of the source, with the
\* callback the voice client calls when the source runs out ("none": no
\* callback).
play(source, after) ==
    [song |-> source.song, chain |-> source.chain, volume |-> source.volume,
     after |-> after]

StopWatching == rep' = NoRep /\ repOn' = FALSE /\ returned' = <<>>

Watch(ret) ==
    IF repOn /\ Len(returned) < MaxPlays
    THEN returned' = Append(returned, ret) /\ UNCHANGED <<rep, repOn>>
    ELSE StopWatching

AddToQueue(song) ==
    /\ OnConfig
    /\ Noted("add_to_queue")
    /\ Len(cfg.queue) < MaxQueue
    /\ cfg' = [cfg EXCEPT !.queue = Append(@, song)]
    /\ config' = save_playback_state(cfg')
    /\ StopWatching
    /\ UNCHANGED <<original, psCurrent, cfgVc, cfgRet>>
    /\ PsIdle
    /\ UNCHANGED <<stack, plVars, coVars, cogVars, afVars>>

GetNextSong ==
    /\ OnConfig
    /\ Noted("get_next_song")
    /\ LET r == get_next_song(cfg, original) IN
        /\ cfg' = r.st
        /\ original' = r.orig
        /\ config' = IF r.saved THEN save_playback_state(r.st) ELSE config
        /\ cfgRet' = r.ret
    /\ StopWatching
    /\ UNCHANGED <<psCurrent, cfgVc>>
    /\ PsIdle
    /\ UNCHANGED <<stack, plVars, coVars, cogVars, afVars>>

\* PlaybackService.play_song; source_ok = FALSE: _create_audio_source fails.
PlaySong(source_ok) ==
    /\ OnConfig
    /\ Noted("play_song")
    /\ LET r == get_next_song(cfg, original) IN
        /\ original' = r.orig
        /\ config' = IF r.saved THEN save_playback_state(r.st) ELSE config
        /\ cfgRet' = r.ret
        /\ Watch(r.ret)
        /\ IF r.ret = None
           THEN /\ cfg' = clear_current_song(r.st)
                /\ psRet' = [op |-> "play_song", ok |-> FALSE, calls |-> <<>>]
                /\ UNCHANGED <<psCurrent, cfgVc, psHandle>>
           ELSE /\ cfg' = set_current_song(r.st, r.ret)
                /\ psCurrent' = r.ret
                /\ IF source_ok /\ cfgVc # "playing"
                   THEN /\ cfgVc' = "playing"
                        /\ psHandle' = play(create_audio_source(r.ret, config'),
                                             "after_callback")
                        /\ psRet' = [op |-> "play_song", ok |-> TRUE,
                                      calls |-> <<"play">>]
                   ELSE /\ psRet' = [op |-> "play_song", ok |-> FALSE, calls |-> <<>>]
                        /\ UNCHANGED <<cfgVc, psHandle>>
    /\ UNCHANGED <<psFilter, psTasks>>
    /\ UNCHANGED <<stack, plVars, coVars, cogVars, afVars>>

\* PlaybackService.clear_current_song
ClearCurrentSong ==
    /\ OnConfig
    /\ Noted("clear_current_song")
    /\ psCurrent' = None
    /\ cfg' = clear_current_song(cfg)
    /\ StopWatching
    /\ UNCHANGED <<original, config, cfgVc, cfgRet>>
    /\ PsIdle
    /\ UNCHANGED <<stack, plVars, coVars, cogVars, afVars>>

\* services.MusicService.clear_queue
ClearQueue ==
    /\ OnConfig
    /\ Noted("clear_queue")
    /\ cfg' = [cfg EXCEPT !.queue = <<>>]
    /\ original' = NoOriginal
    /\ config' = save_playback_state(cfg')
    /\ StopWatching
    /\ UNCHANGED <<psCurrent, cfgVc, cfgRet>>
    /\ PsIdle
    /\ UNCHANGED <<stack, plVars, coVars, cogVars, afVars>>

\* services.MusicService.set_repeat_mode
CfgSetRepeatMode(m) ==
    /\ OnConfig
    /\ Noted("set_repeat_mode")
    /\ cfg' = [cfg EXCEPT !.repeat_mode = m]
    /\ config' = save_playback_state(cfg')
    /\ IF m = "queue"
       THEN /\ rep' = [cur |-> cfg.current_song, q |-> cfg.queue]
            /\ repOn' = TRUE
            /\ returned' = <<>>
       ELSE StopWatching
    /\ UNCHANGED <<original, psCurrent, cfgVc, cfgRet>>
    /\ PsIdle
    /\ UNCHANGED <<stack, plVars, coVars, cogVars, afVars>>

\* The song of the playing handle runs out: the voice client calls the
\* callback the handle was played with, if it has one.
CfgSongEnd ==
    /\ OnConfig
    /\ cfgVc = "playing"
    /\ cfgVc' = "none"
    /\ psHandle' = NoSource
    /\ psRet' = [op |-> "song_end", ok |-> psHandle.after # "none",
                 calls |-> IF psHandle.after # "none" THEN <<psHandle.after>>
                           ELSE <<>>]
    /\ UNCHANGED <<cfg, original, psCurrent, config, cfgOp, cfgWas, cfgRet,
                   rep, repOn, returned, psFilter, psTasks>>
    /\ UNCHANGED <<stack, plVars, coVars, cogVars, afVars>>

CfgRepeatModes == {"off", "song", "queue"}

ConfigOps ==
    \/ \E song \in Songs : AddToQueue(song)
    \/ GetNextSong
    \/ \E source_ok \in BOOLEAN : PlaySong(source_ok)
    \/ ClearCurrentSong
    \/ ClearQueue
    \/ \E m \in CfgRepeatModes : CfgSetRepeatMode(m)
    \/ CfgSongEnd

InitOnConfig == stack = "config" /\ InitAll

SpecConfig == InitOnConfig /\ [][ConfigOps]_vars

\* ------------------------------ the flags of the cached PlaybackState
\* services.MusicService.set_playback_state
set_playback_state(st, is_playing, is_paused) ==
    [st EXCEPT !.is_playing = is_playing, !.is_paused = is_paused]

\* PlaybackService.set_playback_state, which hands its arguments on.
SetPlaybackState(is_playing, is_paused) ==
    /\ OnConfig
    /\ Noted("set_playback_state")
    /\ cfg' = set_playback_state(cfg, is_playing, is_paused)
    /\ StopWatching
    /\ UNCHANGED <<original, psCurrent, config, cfgVc, cfgRet>>
    /\ PsIdle
    /\ UNCHANGED <<stack, plVars, coVars, cogVars, afVars>>

NextFlags ==
    \/ \E song \in Songs : AddToQueue(song)
    \/ \E source_ok \in BOOLEAN : PlaySong(source_ok)
    \/ ClearCurrentSong
    \/ CfgSongEnd
    \/ \E is_playing, is_paused \in BOOLEAN : SetPlaybackState(is_playing, is_paused)

SpecFlags == InitOnConfig /\ [][NextFlags]_vars

\* ----------------------- the playback state across restarts of the bot
\* SongInfo(**song): the song whose fields are the dict's entries.
SongInfo(song) == CHOOSE s \in Songs : SongDict(s) = song

\* RepeatMode(value): the member of the enum with that value.
RepeatMode(value) == CHOOSE m \in CfgRepeatModes : m = value

\* services.MusicService.get_playback_state for a guild it holds no state
\* of: the PlaybackState loaded from the config conf.
get_playback_state(conf) ==
    [current_song |-> None,
     queue        |-> [i \in 1..Len(conf.queue) |-> SongInfo(conf.queue[i])],
     repeat_mode  |-> RepeatMode(conf.repeat_mode),
     volume       |-> conf.volume,
     is_playing   |-> FALSE,
     is_paused    |-> FALSE]

\* Volumes inside and outside 0..150.
CfgVolumes == {80, 160}

\* services.MusicService.set_volume
CfgSetVolume(volume) ==
    /\ OnConfig
    /\ Noted("set_volume")
    /\ IF 0 <= volume /\ volume <= 150
       THEN /\ cfg' = [cfg EXCEPT !.volume = volume]
            /\ config' = save_playback_state(cfg')
       ELSE UNCHANGED <<cfg, config>>
    /\ StopWatching
    /\ UNCHANGED <<original, psCurrent, cfgVc, cfgRet>>
    /\ PsIdle
    /\ UNCHANGED <<stack, plVars, coVars, cogVars, afVars>>

\* The bot process restarts and the guild's state is asked for again: a new
\* MusicService holds no state and get_playback_state loads it from the
\* config file.
CfgRestart ==
    /\ OnConfig
    /\ Noted("restart")
    /\ cfg' = get_playback_state(config)
    /\ original' = NoOriginal
    /\ psCurrent' = None
    /\ cfgVc' = "none"
    /\ cfgRet' = None
    /\ StopWatching
    /\ psRet' = NoRet
    /\ psHandle' = NoSource
    /\ psTasks' = EmptyBag
    /\ UNCHANGED <<config, psFilter>>
    /\ UNCHANGED <<stack, plVars, coVars, cogVars, afVars>>

NextRestore ==
    \/ \E song \in Songs : AddToQueue(song)
    \/ GetNextSong
    \/ ClearQueue
    \/ \E m \in CfgRepeatModes : CfgSetRepeatMode(m)
    \/ \E volume \in CfgVolumes : CfgSetVolume(volume)
    \/ CfgRestart

SpecRestore == InitOnConfig /\ [][NextRestore]_vars

\* ------------------- PlaybackService reapplying filters to the live song
LegacyFilters == {"bassboost"}
Volumes == {50, 75}

\* voice_client.pause(), as the commands call it.
PsPause ==
    /\ OnConfig
    /\ cfgVc = "playing"
    /\ cfgVc' = "paused"
    /\ psRet' = NoRet
    /\ UNCHANGED <<cfg, original, psCurrent, config, cfgOp, cfgWas, cfgRet,
                   rep, repOn, returned, psHandle, psFilter, psTasks>>
    /\ UNCHANGED <<stack, plVars, coVars, cogVars, afVars>>

\* services.FilterService.toggle_legacy_filter
PsToggleFilter(filter_name) ==
    /\ OnConfig
    /\ psFilter' = IF psFilter = filter_name THEN "none" ELSE filter_name
    /\ psRet' = NoRet
    /\ UNCHANGED <<cfg, original, psCurrent, config, cfgVc, cfgOp, cfgWas, cfgRet,
                   rep, repOn, returned, psHandle, psTasks>>
    /\ UNCHANGED <<stack, plVars, coVars, cogVars, afVars>>

\* A set_volume that accepts 0..100 only.
set_volume_to_100(conf, volume) ==
    IF ~(0 <= volume /\ volume <= 100) THEN [ok |-> FALSE, config |-> conf]
    ELSE [ok |-> TRUE, config |-> [conf EXCEPT !.volume = volume]]

\* services.FilterService.set_volume on the guild's config: [ok, config].
set_volume(conf, volume) ==
    IF ~(0 <= volume /\ volume <= 150) THEN [ok |-> FALSE, config |-> conf]
    ELSE [ok |-> TRUE, config |-> [conf EXCEPT !.volume = volume]]

\* PlaybackService.update_volume
PsUpdateVolume(volume) ==
    /\ OnConfig
    /\ LET r == set_volume(config, volume) IN
       /\ config' = r.config
       /\ psHandle' = IF r.ok /\ cfgVc # "none"
                      THEN [psHandle EXCEPT !.volume = volume]
                      ELSE psHandle
       /\ psRet' = [op |-> "update_volume", ok |-> r.ok, calls |-> <<>>]
    /\ UNCHANGED <<cfg, original, psCurrent, cfgVc, cfgOp, cfgWas, cfgRet,
                   rep, repOn, returned, psFilter, psTasks>>
    /\ UNCHANGED <<stack, plVars, coVars, cogVars, afVars>>

\* services.FilterService.set_volume called on its own.
FsSetVolume(volume) ==
    /\ OnConfig
    /\ LET r == set_volume(config, volume) IN
       /\ config' = r.config
       /\ psRet' = [op |-> "set_volume", ok |-> r.ok, calls |-> <<>>]
    /\ UNCHANGED <<cfg, original, psCurrent, cfgVc, cfgOp, cfgWas, cfgRet,
                   rep, repOn, returned, psHandle, psFilter, psTasks>>
    /\ UNCHANGED <<stack, plVars, coVars, cogVars, afVars>>

\* Volumes below, at the ends of, and above 0..150.
AnyVolumes == {-10, 0, 150, 160}

\* The volume setters next to the calls that create and end sources.
NextSetVolume ==
    \/ \E song \in Songs : cfg.queue = <<>> /\ AddToQueue(song)
    \/ \E source_ok \in BOOLEAN : PlaySong(source_ok)
    \/ CfgSongEnd
    \/ PsPause
    \/ \E volume \in AnyVolumes : PsUpdateVolume(volume)
    \/ \E volume \in AnyVolumes : FsSetVolume(volume)

SpecSetVolume == InitOnConfig /\ [][NextSetVolume]_vars

\* PlaybackService.apply_filters_to_current_song up to its sleep.
PsApplyFilters ==
    /\ OnConfig
    /\ Noted("apply_filters_to_current_song")
    /\ StopWatching
    /\ IF cfgVc # "none" /\ psCurrent # None
       THEN /\ BagCardinality(psTasks) < MaxReapply
            /\ psTasks' = psTasks (+) SetToBag({[current_song |-> psCurrent,
                                                 was_paused |-> cfgVc = "paused",
                                                 calls |-> <<"stop">>]})
            /\ cfgVc' = "none"
            /\ psHandle' = NoSource
            /\ psRet' = NoRet
       ELSE /\ psRet' = [op |-> "apply_filters_to_current_song", ok |-> FALSE,
                       calls |-> <<>>]
            /\ UNCHANGED <<cfgVc, psHandle, psTasks>>
    /\ UNCHANGED <<cfg, original, psCurrent, config, cfgRet, psFilter>>
    /\ UNCHANGED <<stack, plVars, coVars, cogVars, afVars>>

\* The rest of that call, after the sleep; source_ok = FALSE:
\* _create_audio_source fails.
PsApplyResume(t, source_ok) ==
    /\ OnConfig
    /\ BagIn(t, psTasks)
    /\ psTasks' = psTasks (-) SetToBag({t})
    /\ IF source_ok /\ cfgVc # "playing"
       THEN /\ cfgVc' = IF t.was_paused THEN "paused" ELSE "playing"
            /\ psHandle' = play(create_audio_source(t.current_song, config),
                                 "none")
            /\ psRet' = [op |-> "apply_filters_to_current_song", ok |-> TRUE,
                       calls |-> t.calls \o <<"play">> \o
                                 (IF t.was_paused THEN <<"pause">> ELSE <<>>)]
       ELSE /\ psRet' = [op |-> "apply_filters_to_current_song", ok |-> FALSE,
                       calls |-> t.calls]
            /\ UNCHANGED <<cfgVc, psHandle>>
    /\ UNCHANGED <<cfg, original, psCurrent, config, cfgOp, cfgWas, cfgRet,
                   rep, repOn, returned, psFilter>>
    /\ UNCHANGED <<stack, plVars, coVars, cogVars, afVars>>

ReapplyOps ==
    \/ PsPause
    \/ \E filter_name \in LegacyFilters : PsToggleFilter(filter_name)
    \/ \E volume \in Volumes : PsUpdateVolume(volume)
    \/ PsApplyFilters
    \/ \E t \in BagToSet(psTasks), source_ok \in BOOLEAN : PsApplyResume(t, source_ok)

\* The calls that hand songs to the voice client, with the reapply.
NextReapply ==
    \/ \E song \in Songs : cfg.queue = <<>> /\ AddToQueue(song)
    \/ \E source_ok \in BOOLEAN : PlaySong(source_ok)
    \/ ClearCurrentSong
    \/ CfgSongEnd
    \/ ReapplyOps

SpecReapply == InitOnConfig /\ [][NextReapply]_vars

\* -------- the two queue implementations, one of them exercised per run
NextQueues == PlaylistOps \/ ConfigOps

InitQueues == stack \in {"playlist", "config"} /\ InitAll

SpecQueues == InitQueues /\ [][NextQueues]_vars

\* ------- the Playlist exercised directly, or through the coordinator
NextCursor == (stack = "playlist" /\ PlaylistOps) \/ Next

InitCursor == stack \in {"playlist", "domain"} /\ InitAll

SpecCursor == InitCursor /\ [][NextCursor]_vars

\* ------------------------------------------------ the command cog
OnCog == stack \in {"cog", "guilds"}

\* The state PlaybackCog's code reads and writes, threaded through it.
CogWorld ==
    [config |-> cogConfig, current |-> cogCurrent, original |-> cogOriginal,
     vc |-> cogVc, cbs |-> cogCbs]

CogCommit(c) ==
    /\ cogConfig' = c.config
    /\ cogCurrent' = c.current
    /\ cogOriginal' = c.original
    /\ cogVc' = c.vc
    /\ cogCbs' = c.cbs

CogLive(c) == c.vc.state \in {"playing", "paused"}

\* vc.stop(): the handle ends and its thread will call `after`; forced tells
\* the callbacks of handles stopped by apply_filters_to_current_song apart.
cog_vc_stop(c, forced) ==
    IF CogLive(c)
    THEN [c EXCEPT !.vc.state = "none", !.vc.song = None, !.vc.by = "none",
                   !.cbs = @ (+) SetToBag({[forced |-> forced]})]
    ELSE c

\* The tail of _play_next: record the song, save, build the source, vc.play.
cog_start(c, song_info, source_ok) ==
    LET c1 == [c EXCEPT !.current = song_info] IN
        IF source_ok
        THEN [c1 EXCEPT !.vc.state = "playing", !.vc.song = song_info,
                        !.vc.by = "play_next"]
        ELSE c1

\* PlaybackCog._play_next after its first await.
play_next(c, source_ok) ==
    IF ~c.vc.connected THEN c
    ELSE LET repeat_mode == c.config.repeat_mode
             current_song == c.current
             empty   == c.config.queue = <<>> /\ repeat_mode # "song"
             restore == empty /\ repeat_mode = "queue" /\ c.original.set
         IN  IF empty /\ ~restore THEN c
             ELSE LET c1 == IF restore
                            THEN [c EXCEPT !.config.queue = c.original.q]
                            ELSE c
                  IN  IF CogLive(c1) THEN c1
                      ELSE IF repeat_mode = "song" /\ current_song # None
                      THEN cog_start(c1, current_song, source_ok)
                      ELSE IF c1.config.queue = <<>> THEN c1
                      ELSE LET song_info == Head(c1.config.queue)
                               popped    == Tail(c1.config.queue)
                               orig1 == IF repeat_mode = "queue" /\ ~c1.original.set
                                        THEN [set |-> TRUE, q |-> <<song_info>> \o popped]
                                        ELSE c1.original
                               queue1 == IF repeat_mode = "queue" /\ popped = <<>>
                                         THEN Tail(orig1.q) ELSE popped
                           IN  cog_start([c1 EXCEPT !.config.queue = queue1,
                                                    !.original = orig1],
                                         song_info, source_ok)

\* The /play command: connect, append the song, start it if nothing is live.
CogPlay(song, source_ok) ==
    /\ OnCog
    /\ Len(cogConfig.queue) < MaxQueue
    /\ LET c  == [CogWorld EXCEPT !.vc.connected = TRUE,
                                  !.config.queue = Append(@, song)]
       IN  CogCommit(IF CogLive(c) THEN c ELSE play_next(c, source_ok))
    /\ UNCHANGED <<cogTasks, cogRet>>
    /\ UNCHANGED <<stack, plVars, coVars, cfgVars, afVars, cogOther>>

\* The /pause command.
CogPause ==
    /\ OnCog
    /\ cogVc' = IF cogVc.state = "playing" THEN [cogVc EXCEPT !.state = "paused"]
                ELSE cogVc
    /\ UNCHANGED <<cogConfig, cogCurrent, cogOriginal, cogCbs, cogTasks, cogRet>>
    /\ UNCHANGED <<stack, plVars, coVars, cfgVars, afVars, cogOther>>

\* The /resume command.
CogResume ==
    /\ OnCog
    /\ cogVc' = IF cogVc.state = "paused" THEN [cogVc EXCEPT !.state = "playing"]
                ELSE cogVc
    /\ UNCHANGED <<cogConfig, cogCurrent, cogOriginal, cogCbs, cogTasks, cogRet>>
    /\ UNCHANGED <<stack, plVars, coVars, cfgVars, afVars, cogOther>>

\* The /skip command.
CogSkip ==
    /\ OnCog
    /\ BagCardinality(cogCbs) < MaxPending
    /\ CogCommit(cog_vc_stop(CogWorld, FALSE))
    /\ UNCHANGED <<cogTasks, cogRet>>
    /\ UNCHANGED <<stack, plVars, coVars, cfgVars, afVars, cogOther>>

\* The /stop command: PlaybackCog.stop_player.
CogStop ==
    /\ OnCog
    /\ cogVc.connected
    /\ BagCardinality(cogCbs) < MaxPending
    /\ LET c == cog_vc_stop(CogWorld, FALSE) IN
        CogCommit([c EXCEPT !.config.queue = <<>>, !.config.repeat_mode = "off",
                            !.original = NoOriginal, !.current = None,
                            !.vc.connected = FALSE])
    /\ UNCHANGED <<cogTasks, cogRet>>
    /\ UNCHANGED <<stack, plVars, coVars, cfgVars, afVars, cogOther>>

\* The song of the playing handle runs out.
CogSongEnd ==
    /\ OnCog
    /\ cogVc.state = "playing"
    /\ BagCardinality(cogCbs) < MaxPending
    /\ CogCommit(cog_vc_stop(CogWorld, FALSE))
    /\ UNCHANGED <<cogTasks, cogRet>>
    /\ UNCHANGED <<stack, plVars, coVars, cfgVars, afVars, cogOther>>

\* PlaybackCog.after_playback / after_playback_runtime_update, run for the
\* completion callback cb.
CogAfterPlayback(cb, source_ok) ==
    /\ OnCog
    /\ BagIn(cb, cogCbs)
    /\ CogCommit(play_next([CogWorld EXCEPT !.cbs = @ (-) SetToBag({cb})], source_ok))
    /\ UNCHANGED <<cogTasks, cogRet>>
    /\ UNCHANGED <<stack, plVars, coVars, cfgVars, afVars, cogOther>>

\* PlaybackCog.apply_filters_to_current_song up to its sleep.
CogApplyFilters ==
    /\ OnCog
    /\ IF cogVc.connected /\ CogLive(CogWorld) /\ cogCurrent # None
       THEN /\ BagCardinality(cogTasks) < MaxTasks
            /\ BagCardinality(cogCbs) < MaxPending
            /\ cogTasks' = cogTasks (+) SetToBag({[current_song |-> cogCurrent,
                                                   was_paused |-> cogVc.state = "paused"]})
            /\ CogCommit(cog_vc_stop(CogWorld, TRUE))
            /\ UNCHANGED cogRet
       ELSE /\ cogRet' = "False"
            /\ UNCHANGED <<cogConfig, cogCurrent, cogOriginal, cogVc, cogCbs, cogTasks>>
    /\ UNCHANGED <<stack, plVars, coVars, cfgVars, afVars, cogOther>>

\* vc.play as apply_filters_to_current_song calls it: raises when the client
\* is not connected or a handle is playing.
cog_replay(client, t, by) ==
    IF ~client.connected \/ client.state = "playing"
    THEN [raised |-> TRUE, vc |-> client]
    ELSE [raised |-> FALSE,
          vc |-> [client EXCEPT !.state = IF t.was_paused THEN "paused" ELSE "playing",
                            !.song = t.current_song, !.by = by]]

\* The rest of that call, after the sleep.  outcome: "ok", or "fallback" when
\* only the source without filters can be built, or "fail" when neither can.
CogApplyResume(t, outcome) ==
    /\ OnCog
    /\ BagIn(t, cogTasks)
    /\ cogTasks' = cogTasks (-) SetToBag({t})
    /\ LET first  == cog_replay(cogVc, t, "reapply")
           second == cog_replay(cogVc, t, "fallback")
       IN  IF outcome = "ok" /\ ~first.raised
           THEN cogVc' = first.vc /\ cogRet' = "True"
           ELSE /\ cogVc' = IF outcome # "fail" /\ ~second.raised THEN second.vc
                            ELSE cogVc
                /\ cogRet' = "False"
    /\ UNCHANGED <<cogConfig, cogCurrent, cogOriginal, cogCbs>>
    /\ UNCHANGED <<stack, plVars, coVars, cfgVars, afVars, cogOther>>

CogOutcomes == {"ok", "fallback", "fail"}

CogOps ==
    \/ \E song \in Songs, source_ok \in BOOLEAN : CogPlay(song, source_ok)
    \/ CogPause
    \/ CogResume
    \/ CogSkip
    \/ CogStop
    \/ CogSongEnd
    \/ \E cb \in BagToSet(cogCbs), source_ok \in BOOLEAN : CogAfterPlayback(cb, source_ok)
    \/ CogApplyFilters
    \/ \E t \in BagToSet(cogTasks), outcome \in CogOutcomes : CogApplyResume(t, outcome)

InitOnCog == stack = "cog" /\ InitAll

SpecCog == InitOnCog /\ [][CogOps]_vars

\* ------------------------------------ the command cog serving two guilds
OnGuilds == stack = "guilds"

\* What PlaybackCog's code reads and writes when it runs for the second
\* guild: that guild's config and voice client, and the cog's own
\* _current_song and _original_queue attributes.
OtherWorld ==
    [config |-> cogOther.config, current |-> cogCurrent, original |-> cogOriginal,
     vc |-> cogOther.vc, cbs |-> cogOther.cbs]

OtherCommit(c, sleeping) ==
    /\ cogOther' = [config |-> c.config, vc |-> c.vc, cbs |-> c.cbs,
                    tasks |-> sleeping]
    /\ cogCurrent' = c.current
    /\ cogOriginal' = c.original
    /\ UNCHANGED <<cogConfig, cogVc, cogCbs, cogTasks, cogRet>>
    /\ UNCHANGED <<stack, plVars, coVars, cfgVars, afVars>>

\* The /play command in the second guild.
OtherPlay(song, source_ok) ==
    /\ OnGuilds
    /\ Len(cogOther.config.queue) < MaxQueue
    /\ LET c == [OtherWorld EXCEPT !.vc.connected = TRUE,
                                   !.config.queue = Append(@, song)]
       IN  OtherCommit(IF CogLive(c) THEN c ELSE play_next(c, source_ok),
                       cogOther.tasks)

\* The /stop command in the second guild: PlaybackCog.stop_player.
OtherStop ==
    /\ OnGuilds
    /\ cogOther.vc.connected
    /\ BagCardinality(cogOther.cbs) < MaxPending
    /\ LET c == cog_vc_stop(OtherWorld, FALSE) IN
        OtherCommit([c EXCEPT !.config.queue = <<>>, !.config.repeat_mode = "off",
                              !.original = NoOriginal, !.current = None,
                              !.vc.connected = FALSE],
                    cogOther.tasks)

\* The song of the second guild's playing handle runs out.
OtherSongEnd ==
    /\ OnGuilds
    /\ cogOther.vc.state = "playing"
    /\ BagCardinality(cogOther.cbs) < MaxPending
    /\ OtherCommit(cog_vc_stop(OtherWorld, FALSE), cogOther.tasks)

\* PlaybackCog.after_playback run for a completion callback of the second
\* guild.
OtherAfterPlayback(cb, source_ok) ==
    /\ OnGuilds
    /\ BagIn(cb, cogOther.cbs)
    /\ OtherCommit(play_next([OtherWorld EXCEPT !.cbs = @ (-) SetToBag({cb})],
                             source_ok),
                   cogOther.tasks)

\* PlaybackCog.apply_filters_to_current_song for the second guild, up to its
\* sleep.
OtherApplyFilters ==
    /\ OnGuilds
    /\ cogOther.vc.connected /\ CogLive(OtherWorld) /\ cogCurrent # None
    /\ BagCardinality(cogOther.tasks) < MaxTasks
    /\ BagCardinality(cogOther.cbs) < MaxPending
    /\ OtherCommit(cog_vc_stop(OtherWorld, TRUE),
                   cogOther.tasks (+) SetToBag({[current_song |-> cogCurrent,
                                                 was_paused |->
                                                     cogOther.vc.state = "paused"]}))

\* The rest of that call, after the sleep, when the source can be built.
OtherApplyResume(t) ==
    /\ OnGuilds
    /\ BagIn(t, cogOther.tasks)
    /\ LET first == cog_replay(cogOther.vc, t, "reapply") IN
        OtherCommit([OtherWorld EXCEPT !.vc = IF first.raised THEN @ ELSE first.vc],
                    cogOther.tasks (-) SetToBag({t}))

\* The calls that reach _play_next, stop_player and
\* apply_filters_to_current_song, made for either guild; the first guild asks
\* for song 1, the second for song 2.
NextGuilds ==
    \/ CogPlay(1, TRUE)
    \/ CogStop
    \/ CogSongEnd
    \/ \E cb \in BagToSet(cogCbs) : CogAfterPlayback(cb, TRUE)
    \/ CogApplyFilters
    \/ \E t \in BagToSet(cogTasks) : CogApplyResume(t, "ok")
    \/ OtherPlay(2, TRUE)
    \/ OtherStop
    \/ OtherSongEnd
    \/ \E cb \in BagToSet(cogOther.cbs) : OtherAfterPlayback(cb, TRUE)
    \/ OtherApplyFilters
    \/ \E t \in BagToSet(cogOther.tasks) : OtherApplyResume(t)

InitOnGuilds == stack = "guilds" /\ InitAll

SpecGuilds == InitOnGuilds /\ [][NextGuilds]_vars

\* ------------------------ AdvancedFilterManager: the calls on one guild
OnAdvanced == stack = "advanced"

\* SharedManagers.get_filter_manager: the guild's manager, created with the
\* default registry on first use; a saved "advanced_filters" is read and
\* dropped (state restoration is a TODO followed by pass).
get_filter_manager ==
    IF afFilters = NoManager THEN _initialize_default_filters ELSE afFilters

AfReturns(op, ok, args) == afRet' = [op |-> op, ok |-> ok, args |-> args]

\* Inputs of the calls: names the registry knows and one it does not.
AfFilterNames == {"bassboost", "equalizer", "compressor", "unknown"}

AfPresetNames == {"gaming", "music", "vocal", "unknown"}

\* <<filter, parameter, value>>: values at the edge of the range, inside it,
\* above it and below it, an unknown parameter and an unknown filter.
AfParameterInputs ==
    { <<"bassboost", "gain", PyInt(30)>>,
      <<"bassboost", "gain", PyInt(40)>>,
      <<"equalizer", "gain2", PyInt(-5)>>,
      <<"compressor", "threshold", PyFloat(5)>>,
      <<"equalizer", "gain", PyInt(5)>>,
      <<"unknown", "gain", PyInt(5)>> }

EnableFilter(name) ==
    /\ OnAdvanced
    /\ LET r == enable_filter(get_filter_manager, name) IN
       /\ afFilters' = r.filters
       /\ AfReturns("enable_filter", r.ok, <<name>>)
    /\ UNCHANGED <<afConfig, stack, plVars, coVars, cfgVars, cogVars>>

DisableFilter(name) ==
    /\ OnAdvanced
    /\ LET r == disable_filter(get_filter_manager, name) IN
       /\ afFilters' = r.filters
       /\ AfReturns("disable_filter", r.ok, <<name>>)
    /\ UNCHANGED <<afConfig, stack, plVars, coVars, cfgVars, cogVars>>

SetFilterParameter(filter_name, param_name, value) ==
    /\ OnAdvanced
    /\ LET r == set_filter_parameter(get_filter_manager, filter_name,
                                     param_name, value) IN
       /\ afFilters' = r.filters
       /\ AfReturns("set_filter_parameter", r.ok, <<filter_name, param_name>>)
    /\ UNCHANGED <<afConfig, stack, plVars, coVars, cfgVars, cogVars>>

ApplyPreset(preset_name) ==
    /\ OnAdvanced
    /\ LET r == apply_preset(get_filter_manager, preset_name) IN
       /\ afFilters' = r.filters
       /\ AfReturns("apply_preset", r.ok, <<preset_name>>)
    /\ UNCHANGED <<afConfig, stack, plVars, coVars, cfgVars, cogVars>>

\* SharedManagers.save_filter_state: nothing is written for a guild without
\* a manager.
SaveFilterState ==
    /\ OnAdvanced
    /\ afConfig' = IF afFilters # NoManager THEN to_dict(afFilters) ELSE afConfig
    /\ AfReturns("save_filter_state", TRUE, <<>>)
    /\ UNCHANGED <<afFilters, stack, plVars, coVars, cfgVars, cogVars>>

\* The bot process restarts: guild_filter_managers is empty again, the config
\* file stays.
RestartBot ==
    /\ OnAdvanced
    /\ afFilters # NoManager
    /\ afFilters' = NoManager
    /\ AfReturns("restart", TRUE, <<>>)
    /\ UNCHANGED <<afConfig, stack, plVars, coVars, cfgVars, cogVars>>

\* A cog asks for the guild's manager (every filter command starts so).
GetFilterManager ==
    /\ OnAdvanced
    /\ afFilters' = get_filter_manager
    /\ AfReturns("get_filter_manager", TRUE, <<>>)
    /\ UNCHANGED <<afConfig, stack, plVars, coVars, cfgVars, cogVars>>

AdvancedOps ==
    \/ \E name \in AfFilterNames : EnableFilter(name)
    \/ \E name \in AfFilterNames : DisableFilter(name)
    \/ \E in \in AfParameterInputs : SetFilterParameter(in[1], in[2], in[3])
    \/ \E preset_name \in AfPresetNames : ApplyPreset(preset_name)

InitOnAdvanced == stack = "advanced" /\ InitAll

SpecAdvanced == InitOnAdvanced /\ [][AdvancedOps]_vars

\* The registry across restarts: a few mutations, saving, restarting and
\* asking for the manager again.
PersistOps ==
    \/ \E name \in {"bassboost", "compressor"} : EnableFilter(name)
    \/ DisableFilter("bassboost")
    \/ SetFilterParameter("bassboost", "gain", PyInt(30))
    \/ SaveFilterState
    \/ RestartBot
    \/ GetFilterManager

SpecPersist == InitOnAdvanced /\ [][PersistOps]_vars

\* ---------------------------------------------------------------------------
\* The persisted volume under the operations that save the cached state:
\* FilterService.set_volume writes the config, the services.MusicService
\* operations write their cached PlaybackState over it.
NextSavedVolume ==
    \/ \E song \in Songs : AddToQueue(song)
    \/ GetNextSong
    \/ ClearQueue
    \/ \E m \in CfgRepeatModes : CfgSetRepeatMode(m)
    \/ \E volume \in AnyVolumes : FsSetVolume(volume)

SpecSavedVolume == InitOnConfig /\ [][NextSavedVolume]_vars

\* ================================================================ claims

\* C1: a skip issued while a handle is playing or paused moves the cursor
\* by exactly one position, and the callback of the handle that the skip
\* stopped schedules no track_ended publication (hence no further
\* next_track and no second start).
SkipAdvancesOnce ==
    /\ [][(Skip /\ vc.state \in {"playing", "paused"}
                /\ playlist.repeat_mode # "track"
                /\ next_track(playlist).ret # None)
            => playlist'.current_index =
                    (playlist.current_index + 1) % Len(playlist.tracks)]_vars
    /\ [][\A c \in BagToSet(cbs) :
            (c.why = "skip" /\ PlaybackFinished(c))
                => ev' = ev /\ playlist' = playlist /\ vc' = vc]_vars

\* C2: while a filter restart is in flight the player's _applying_filters
\* flag is set, and the callback of the handle that the restart stopped,
\* whenever it runs, schedules no track_ended publication and leaves the
\* playlist and the replacement handle alone.
RestartCallbackInert ==
    /\ [](\A t \in BagToSet(tasks) :
            t.flag # 0 => players[t.flag].applying_filters)
    /\ [][\A c \in BagToSet(cbs) :
            (c.why = "restart" /\ PlaybackFinished(c))
                => ev' = ev /\ playlist' = playlist /\ vc' = vc]_vars

\* C3: a filter change requested while a restart is in flight is not lost:
\* whenever the registered player has no restart in flight, the filter set
\* it builds the handle's chain from is the one the filter events published
\* so far add up to.
FilterChangeNotLost ==
    (reg # 0 /\ ~players[reg].applying_filters)
        => players[reg].active_filters = expected[reg]

\* C4: the guild has at most one live handle: no handle is ever replaced by
\* voice_client.play without having been stopped first.
OneLiveHandle == leaked = 0

\* C5: MusicService.stop leaves an empty playlist with index -1, no
\* registered player and no live handle, whatever the state it is called in.
StopLeavesNothing ==
    [][Stop => /\ playlist'.tracks = <<>>
               /\ playlist'.current_index = -1
               /\ reg' = 0
               /\ vc'.state = "none"]_vars

\* C6: in OFF mode with the cursor starting at -1, the next_track calls
\* return the tracks in insertion order, each once, and a call returns None
\* only with the cursor on the last track, where it stays.
OffModeInsertionOrder ==
    fresh =>
        /\ served = SubSeq(playlist.tracks, 1, playlist.current_index + 1)
        /\ (plOp = "next_track" /\ plRet = None
                => playlist.current_index = Len(playlist.tracks) - 1)

OffModeAllServed ==
    /\ fresh /\ plOp = "next_track" /\ plRet = None
    /\ Len(served) >= 2 /\ served[1] # served[2]
    /\ served = playlist.tracks

\* C7: in QUEUE mode with n >= 1 tracks, next_track calls made in a row go
\* round the tracks: call i returns the track n calls before it returned,
\* and the cursor wraps from the last track to 0.
QueueModeCircular ==
    (playlist.repeat_mode = "queue" /\ playlist.tracks # <<>>) =>
        LET n == Len(playlist.tracks) IN
        /\ \A i \in 1..Len(log) :
            /\ log[i] = playlist.tracks[((logStart + i) % n) + 1]
            /\ i > n => log[i] = log[i - n]
        /\ log # <<>> => playlist.current_index = (logStart + Len(log)) % n

QueueModeTwoRounds ==
    /\ stack = "playlist" /\ playlist.repeat_mode = "queue"
    /\ Len(playlist.tracks) >= 2 /\ playlist.tracks[1] # playlist.tracks[2]
    /\ Len(log) >= 2 * Len(playlist.tracks) + 1

\* C8: with repeat mode QUEUE and get_next_song driven by play_song, the
\* songs that were current or queued when repetition started are returned
\* round and round in their original order.
ConfigQueueCircular ==
    (repOn /\ Cycle(rep) # <<>>) =>
        \A i \in 1..Len(returned) :
            returned[i] = Cycle(rep)[((i - 1) % Len(Cycle(rep))) + 1]

\* C9: next_track under TRACK, and get_next_song under SONG with a current
\* song, return the current track and change neither the cursor nor the
\* queue.
TrackRepeatStays ==
    /\ [][(NextTrack /\ playlist.repeat_mode = "track")
            => /\ playlist' = playlist
               /\ stack = "playlist" => plRet' = get_current_track(playlist)]_vars
    /\ [][((GetNextSong \/ \E source_ok \in BOOLEAN : PlaySong(source_ok))
                /\ cfg.repeat_mode = "song" /\ cfg.current_song # None)
            => /\ cfgRet' = cfg.current_song
               /\ cfg'.current_song = cfg.current_song
               /\ cfg'.queue = cfg.queue
               /\ original' = original]_vars

SongRepeated ==
    /\ cfgOp \in {"get_next_song", "play_song"}
    /\ cfg.repeat_mode = "song"
    /\ cfgWas # None /\ cfgRet = cfgWas
    /\ cfg.queue # <<>>

\* C10: current_index stays within [-1, len(tracks) - 1], and
\* get_current_track returns tracks[current_index] exactly when
\* current_index >= 0 and None otherwise.
CursorInRange ==
    /\ playlist.current_index >= -1
    /\ playlist.current_index <= Len(playlist.tracks) - 1
    /\ get_current_track(playlist) =
            IF playlist.current_index >= 0
            THEN playlist.tracks[playlist.current_index + 1] ELSE None

CursorOnSecondTrack ==
    /\ stack = "domain"
    /\ Len(playlist.tracks) >= 2 /\ playlist.current_index = 1
    /\ vc.state = "playing" /\ vc.track = get_current_track(playlist)

\* C11: add_track on a playlist holding max_size tracks fails and changes
\* nothing, so len(tracks) <= max_size always; MusicService.play on a full
\* queue returns False, adds nothing and starts nothing.
CapacityKept ==
    /\ [](/\ Len(playlist.tracks) <= playlist.max_size
          /\ Len(playlist.tracks) = playlist.max_size =>
                \A t \in Tracks, position \in {<<>>} \cup {<<i>> : i \in Positions} :
                    /\ ~add_track(playlist, t, position).ok
                    /\ add_track(playlist, t, position).p = playlist)
    /\ [][\A t \in Tracks :
            (Play(t) /\ Len(playlist.tracks) = playlist.max_size)
                => /\ ~msRet'.ok
                   /\ UNCHANGED <<playlist, players, reg, vc, tasks>>]_vars

PlayRefusedWhenFull ==
    /\ msRet.op = "play" /\ ~msRet.ok
    /\ Len(playlist.tracks) = playlist.max_size
    /\ vc.state = "playing"


\* C12: the completion callback of a handle that
\* PlaybackCog.apply_filters_to_current_song stopped does nothing: running it
\* pops nothing from the persisted queue, leaves the current song alone and
\* starts no handle.
ReapplyCallbackIdle ==
    [][\A cb \in BagToSet(cogCbs), source_ok \in BOOLEAN :
          (cb.forced /\ CogAfterPlayback(cb, source_ok))
              => UNCHANGED <<cogConfig, cogCurrent, cogVc>>]_vars

\* C13: overlapping PlaybackService.apply_filters_to_current_song calls are
\* serialized: never are two of them between their stop and their play, and
\* when the last of them returns after building its source, its song still
\* current, one live handle exists and it plays that song.
ReapplySerialized ==
    /\ [](BagCardinality(psTasks) <= 1)
    /\ [][\A t \in BagToSet(psTasks) :
            (PsApplyResume(t, TRUE) /\ psTasks' = EmptyBag
                                    /\ psCurrent = t.current_song)
                => /\ cfgVc' # "none"
                   /\ psHandle'.song = psCurrent']_vars

\* C14: when advancing the queue yields no track, after the natural end of the
\* last track or after MusicService.skip on it, the guild becomes idle (no
\* audio player, empty playlist) and queue_finished is published exactly
\* once; when advancing yields a track, the play of that track is begun.
QueueEndPublished ==
    [][((Skip \/ TrackEnded) /\ playlist.tracks # <<>>) =>
          IF next_track(playlist).ret = None
          THEN reg' = 0 /\ playlist'.tracks = <<>> /\ qfPub' = 1
          ELSE \E t \in BagToSet(tasks') :
                  t.track = next_track(playlist).ret /\ t.p = reg']_vars

\* C15: every live handle AudioPlayer.play creates is built with a chain of
\* exactly the filters active in FilterService at that moment, the first
\* handle after a stop or the end of the queue included.
HandleChainCurrent ==
    [][\A t \in BagToSet(tasks) :
          (StreamResolved(t, "ok") /\ ~vc_is_playing(World) /\ vc'.state = "playing")
              => { vc'.chain[i] : i \in 1..Len(vc'.chain) }
                     = { fsActive[i] : i \in 1..Len(fsActive) }]_vars

\* C16: a filter applied, removed or cleared while the current track is
\* paused rebuilds the handle: a restart of that track is begun by the
\* registered player, which holds the now-current filters.
PausedFilterChangeRebuilds ==
    [][((ClearFilters \/ \E f \in Filters : ApplyFilter(f) \/ RemoveFilter(f))
            /\ reg # 0 /\ vc_is_paused(World) /\ vc.owner = reg
            /\ players[reg].current_track # None
            /\ ~players[reg].applying_filters
            /\ fsActive' # fsActive)
          => \E t \in BagToSet(tasks') :
                t.p = reg /\ t.track = players[reg].current_track /\ t.flag = reg]_vars

\* C17: the handle that AudioPlayer._restart_with_filters rebuilds is created
\* with the volume of the most recent successful set_volume on that player.
RestartKeepsVolume ==
    [][\A t \in BagToSet(tasks) :
          (StreamResolved(t, "ok") /\ t.origin = "restart"
              /\ ~vc_is_playing(World) /\ vc'.state = "playing"
              /\ players[t.p].volume_set # None)
            => vc'.volume = players[t.p].volume_set]_vars

\* C18: a PlaybackService.apply_filters_to_current_song call that returns
\* True stopped the old handle once and created one new handle, for the song
\* that was current when it began, with the filter chain and volume current
\* when the handle is built; the new handle is paused iff playback was paused
\* when the call began.
ReapplyRebuildsHandle ==
    [][\A t \in BagToSet(psTasks), source_ok \in BOOLEAN :
          (PsApplyResume(t, source_ok) /\ psRet'.ok)
            => /\ SelectSeq(psRet'.calls, LAMBDA c : c = "stop") = <<"stop">>
               /\ SelectSeq(psRet'.calls, LAMBDA c : c = "play") = <<"play">>
               /\ psHandle'.song = t.current_song
               /\ psHandle'.chain = get_combined_ffmpeg_filter(psFilter')
               /\ psHandle'.volume = config'.volume
               /\ cfgVc' = IF t.was_paused THEN "paused" ELSE "playing"]_vars

ReappliedWhilePaused ==
    /\ psRet.op = "apply_filters_to_current_song" /\ psRet.ok
    /\ psRet.calls = <<"stop", "play", "pause">>
    /\ cfgVc = "paused"
    /\ psHandle.song = psCurrent
    /\ psHandle.chain = "bass=g=15,dynaudnorm=f=200"
    /\ psHandle.volume = 50

\* C19: when AudioPlayer.play cannot create the handle (no stream URL, or an
\* exception), the MusicService.play or skip call that started it has
\* reported a failure, the queue is not advanced, the failed track stays
\* current and no handle is live for it.
PlayFailureReported ==
    [][\A t \in BagToSet(tasks), outcome \in {"no_url", "error"} :
          (StreamResolved(t, outcome) /\ t.origin \in {"play", "skip"})
            => /\ msRet.op = t.origin => ~msRet.ok
               /\ playlist' = playlist
               /\ get_current_track(playlist') = t.track
               /\ vc' = vc]_vars

\* C20: when _create_audio_source fails in PlaybackService.play_song on an
\* idle guild, the call returns False without calling voice_client.play,
\* is_playing stays false and the failed song is not recorded as current.
SourceFailureLeavesIdle ==
    [][(PlaySong(FALSE) /\ cfgRet' # None /\ ~cfg.is_playing
            /\ cfg.current_song # cfgRet' /\ psCurrent # cfgRet')
          => /\ ~psRet'.ok
             /\ psRet'.calls = <<>>
             /\ ~cfg'.is_playing
             /\ cfg'.current_song # cfgRet'
             /\ psCurrent' # cfgRet']_vars

\* C21: MusicService.pause reports success only when a handle is playing and
\* MusicService.resume only when one is paused; in any other state the call
\* reports failure (and so publishes no playback_paused / playback_resumed)
\* and leaves the voice client as it was.
PauseResumeGuarded ==
    [][/\ Pause  => /\ msRet'.ok => vc.state = "playing"
                    /\ vc.state # "playing" => vc' = vc
       /\ Resume => /\ msRet'.ok => vc.state = "paused"
                    /\ vc.state # "paused" => vc' = vc]_vars

\* C22: MusicService.set_volume accepts exactly the values in 0.0..2.0 and
\* rejects every other value without changing any state; an accepted value
\* succeeds with or without a live handle, and a live handle gets the value
\* in place, the handle otherwise untouched.
VolumeRangeAccepted ==
    [][\A volume \in DomainVolumes, by_requester \in BOOLEAN :
          SetVolume(volume, by_requester)
            => /\ msRet'.ok <=> volume <= 200
               /\ ~msRet'.ok => UNCHANGED <<players, vc, userVolume>>
               /\ (msRet'.ok /\ vc.state # "none")
                      => vc' = [vc EXCEPT !.volume = volume]]_vars

\* Every parameter of the registry fs lies inside its own min..max.
InRange(fs) ==
    \A i \in DOMAIN fs : \A k \in DOMAIN fs[i].parameters :
        /\ fs[i].parameters[k].min_val.num <= fs[i].parameters[k].value.num
        /\ fs[i].parameters[k].value.num <= fs[i].parameters[k].max_val.num

\* C23: every parameter of every filter of AdvancedFilterManager stays inside
\* min..max under any sequence of set_filter_parameter, enable_filter,
\* disable_filter and apply_preset; set_filter_parameter returns False for an
\* out-of-range value, an unknown filter or an unknown parameter, does not
\* clamp, and then leaves the registry and the combined chain as they were.
ParametersInRange ==
    /\ [](InRange(afFilters))
    /\ [][\A in \in AfParameterInputs :
            SetFilterParameter(in[1], in[2], in[3])
              => LET fs == get_filter_manager
                     i == IndexOf(fs, in[1])
                     k == IF i = 0 THEN 0 ELSE IndexOf(fs[i].parameters, in[2])
                     valid == /\ i # 0
                              /\ k # 0
                              /\ fs[i].parameters[k].min_val.num <= in[3].num
                              /\ in[3].num <= fs[i].parameters[k].max_val.num
                 IN /\ afRet'.ok <=> valid
                    /\ valid => afFilters'[i].parameters[k].value = in[3]
                    /\ ~valid => /\ afFilters' = fs
                                 /\ get_combined_ffmpeg_filter_of(afFilters')
                                      = get_combined_ffmpeg_filter_of(fs)]_vars

\* An out-of-range gain was refused while bassboost was enabled.
OutOfRangeRefused ==
    /\ afRet.op = "set_filter_parameter"
    /\ ~afRet.ok
    /\ afRet.args = <<"bassboost", "gain">>
    /\ \E i \in DOMAIN afFilters :
          /\ afFilters[i].name = "bassboost"
          /\ afFilters[i].enabled
          /\ afFilters[i].parameters[1].value = PyInt(8)

\* The names of the filters the registry fs has enabled.
EnabledSet(fs) == {fs[i].name : i \in {j \in DOMAIN fs : fs[j].enabled}}

\* The names of the filters the preset at index p enables.
PresetEnables(p) ==
    LET configs == _initialize_default_presets[p].filters IN
    {configs[i].filter_name : i \in {j \in DOMAIN configs : configs[j].enabled}}

\* C24: after apply_preset(p) returns True the enabled filters are exactly
\* the filters preset p enables, whatever was enabled before; an unknown
\* preset name returns False and changes nothing.
PresetEnablesExactly ==
    [][\A preset_name \in AfPresetNames :
          ApplyPreset(preset_name)
            => LET fs == get_filter_manager
                   p == IndexOf(_initialize_default_presets, preset_name)
               IN /\ afRet'.ok <=> p # 0
                  /\ p # 0 => EnabledSet(afFilters') = PresetEnables(p)
                  /\ p = 0 => afFilters' = fs]_vars

\* The music preset was applied and left exactly bassboost and equalizer on.
MusicPresetOn ==
    /\ afRet.op = "apply_preset"
    /\ afRet.ok
    /\ afRet.args = <<"music">>
    /\ EnabledSet(afFilters) = {"bassboost", "equalizer"}

\* C25: the state after apply_preset(p) is never a mix of p and what was
\* there before: the combined chain after a successful apply_preset(p) is
\* the chain of a fresh manager after apply_preset(p) alone, whatever calls
\* preceded it (another preset, the same preset, parameter changes).
PresetStateNotMixed ==
    [][\A preset_name \in AfPresetNames :
          (ApplyPreset(preset_name) /\ afRet'.ok)
            => get_combined_ffmpeg_filter_of(afFilters')
                 = get_combined_ffmpeg_filter_of(
                      apply_preset(_initialize_default_filters, preset_name).filters)]_vars

\* The order in which _initialize_default_filters registers the filters.
RegistrationOrder ==
    <<"bassboost", "nightcore", "slowed", "8d", "equalizer", "overdrive",
      "compressor">>

\* The rendered filters of the names in order[k..] that fs has enabled.
RECURSIVE RenderedInOrder(_, _, _)
RenderedInOrder(fs, order, k) ==
    IF k > Len(order) THEN <<>>
    ELSE LET i == IndexOf(fs, order[k]) IN
         (IF i # 0 /\ fs[i].enabled THEN <<Render(fs[i], 1, "")>> ELSE <<>>)
            \o RenderedInOrder(fs, order, k + 1)

\* C26: get_combined_ffmpeg_filter depends on the enabled flags and the
\* parameter values only: it renders the enabled filters, and only those, in
\* registration order (bassboost, nightcore, slowed, 8d, equalizer,
\* overdrive, compressor) joined by ",", whatever the order of the calls that
\* enabled them, and it is the empty string exactly when no filter is
\* enabled.
CombinedInRegistrationOrder ==
    afFilters # NoManager
      => /\ get_combined_ffmpeg_filter_of(afFilters)
              = join(",", RenderedInOrder(afFilters, RegistrationOrder, 1))
         /\ get_combined_ffmpeg_filter_of(afFilters) = ""
              <=> EnabledSet(afFilters) = {}

\* compressor was enabled before bassboost, and the chain lists bassboost
\* first.
EnabledOutOfOrder ==
    /\ afRet.op = "enable_filter"
    /\ afRet.args = <<"bassboost">>
    /\ EnabledSet(afFilters) = {"bassboost", "compressor"}
    /\ get_combined_ffmpeg_filter_of(afFilters)
          = "bass=g=15,dynaudnorm=f=200,acompressor=threshold=0.5:ratio=4:attack=5:release=50"

\* C28: enable_filter and disable_filter return False for a name the
\* registry does not know and change nothing; for a known name they return
\* True, change that filter's enabled flag and nothing else, and calling them
\* again changes nothing more.
ToggleOnlyFlag ==
    [][\A name \in AfFilterNames :
          /\ (EnableFilter(name) \/ DisableFilter(name))
               => LET fs == get_filter_manager
                      i == IndexOf(fs, name)
                  IN /\ afRet'.ok <=> i # 0
                     /\ i = 0 => afFilters' = fs
                     /\ i # 0 =>
                          /\ \A j \in DOMAIN fs :
                                j # i => afFilters'[j] = fs[j]
                          /\ [afFilters'[i] EXCEPT !.enabled = fs[i].enabled]
                                = fs[i]
          /\ EnableFilter(name)
               => enable_filter(afFilters', name).filters = afFilters'
          /\ (EnableFilter(name) /\ afRet'.ok)
               => name \in EnabledSet(afFilters')
          /\ DisableFilter(name)
               => /\ disable_filter(afFilters', name).filters = afFilters'
                  /\ name \notin EnabledSet(afFilters')]_vars

\* equalizer was disabled with a changed gain2 in place and compressor
\* still enabled.
DisabledKeepsRest ==
    /\ afRet.op = "disable_filter"
    /\ afRet.ok
    /\ afRet.args = <<"equalizer">>
    /\ EnabledSet(afFilters) = {"compressor"}
    /\ afFilters[5].parameters[5].value = PyInt(-5)

\* The enabled flag and the parameter values of every filter of a saved
\* "advanced_filters" dict, keyed by name.
SavedState(saved) ==
    [i \in DOMAIN saved.filters |->
        [name |-> saved.filters[i][1],
         enabled |-> saved.filters[i][2].enabled,
         parameters |->
            [k \in DOMAIN saved.filters[i][2].parameters |->
                saved.filters[i][2].parameters[k][2].value]]]

\* The same view of a live registry.
LiveState(fs) ==
    [i \in DOMAIN fs |->
        [name |-> fs[i].name,
         enabled |-> fs[i].enabled,
         parameters |->
            [k \in DOMAIN fs[i].parameters |-> fs[i].parameters[k].value]]]

\* C29: the advanced filter registry round-trips through persistence: the
\* manager get_filter_manager hands out after a restart has the enabled flags
\* and the parameter values that save_filter_state wrote.
FilterStateRestored ==
    [][(GetFilterManager /\ afFilters = NoManager /\ afConfig # NoSaved)
          => LiveState(afFilters') = SavedState(afConfig)]_vars

\* The filters of the dict d listed in the order of the registry.
InRegistryOrder(d) == SelectSeq(Registry, LAMBDA f : InSeq(f, d))

\* C27: the filter chain AudioPlayer builds for a new handle lists the
\* active filters in the stable order of the registry, whatever the order in
\* which they were applied and removed: the same final set of filters gives
\* the same chain string.
ChainInRegistryOrder ==
    [][\A t \in BagToSet(tasks) :
          (StreamResolved(t, "ok") /\ ~vc_is_playing(World) /\ vc'.state = "playing")
              => _build_ffmpeg_filter_chain(vc'.chain)
                    = _build_ffmpeg_filter_chain(InRegistryOrder(vc'.chain))]_vars

RemoveExactlyOne ==
    [][\A index \in Positions :
          RemoveTrack(index)
            => IF ~(0 <= index /\ index < Len(playlist.tracks))
               THEN plRet' = None /\ playlist' = playlist
               ELSE /\ plRet' = playlist.tracks[index + 1]
                    /\ Len(playlist'.tracks) = Len(playlist.tracks) - 1
                    /\ \A i \in 1..Len(playlist'.tracks) :
                          playlist'.tracks[i] =
                             playlist.tracks[IF i <= index THEN i ELSE i + 1]
                    /\ playlist'.current_index =
                          IF index <= playlist.current_index
                          THEN playlist.current_index - 1
                          ELSE playlist.current_index
                    /\ playlist'.repeat_mode = playlist.repeat_mode
                    /\ playlist'.max_size = playlist.max_size]_vars

\* The second track was removed from under the cursor, which moved back to
\* the first.
RemovedAtCursor ==
    /\ stack = "playlist"
    /\ plOp = "remove_track"
    /\ plRet = 2
    /\ playlist.tracks = <<1, 1>>
    /\ playlist.current_index = 0

\* C37: Playlist.add_track never changes which track is current: for every
\* insertion position, positions at or before current_index included,
\* get_current_track() returns the same track right before and right after
\* the insertion.
AddKeepsCurrent ==
    [][(\E t \in Tracks :
          \/ AddTrack(t)
          \/ \E position \in Positions : AddTrackAt(t, position))
        => get_current_track(playlist') = get_current_track(playlist)]_vars

\* C33: in the PlaybackState services.MusicService keeps, is_playing and
\* is_paused are never both true, whatever set_current_song,
\* set_playback_state and clear_current_song calls were made.
FlagsExclusive == ~(cfg.is_playing /\ cfg.is_paused)

QueueRefilledFromOriginal ==
    [][((GetNextSong \/ \E source_ok \in BOOLEAN : PlaySong(source_ok))
            /\ cfg.repeat_mode = "queue" /\ cfg.queue # <<>>)
         => /\ cfgRet' = Head(cfg.queue)
            /\ original' = IF ~original.set /\ cfg.current_song # None
                           THEN [set |-> TRUE,
                                 q |-> <<cfg.current_song>> \o Tail(cfg.queue)]
                           ELSE original
            /\ (Len(cfg.queue) = 1 /\ original'.set)
                  => cfg'.queue = Tail(original'.q)
            /\ Len(cfg.queue) > 1 => cfg'.queue = Tail(cfg.queue)
            /\ (original.set /\ Len(original.q) >= 2
                    /\ cfg.queue = Tail(original.q))
                  => cfgRet' = original.q[2]]_vars

\* The last queued song was popped and the queue refilled from the recorded
\* queue <<1, 3>>.
RefilledAfterLastPop ==
    /\ stack = "config"
    /\ cfgOp = "get_next_song"
    /\ cfg.repeat_mode = "queue"
    /\ original = [set |-> TRUE, q |-> <<1, 3>>]
    /\ cfgRet = 3
    /\ cfg.queue = <<3>>

\* C38: the two records of the guild's current song agree once an operation
\* has completed: after every PlaybackService.play_song and
\* clear_current_song, PlaybackService.get_current_song returns None exactly
\* when services.MusicService holds no current_song, and that song otherwise.
CurrentSongRecordsAgree ==
    [][((\E source_ok \in BOOLEAN : PlaySong(source_ok)) \/ ClearCurrentSong)
         => psCurrent' = cfg'.current_song]_vars

\* C39: the volume a new audio source gets is that of the most recent
\* successful FilterService.set_volume: the services.MusicService operations
\* that persist their cached state (add_to_queue, get_next_song, clear_queue,
\* set_repeat_mode) leave the persisted volume as it was.
SaveKeepsVolume ==
    [][(\/ \E song \in Songs : AddToQueue(song)
        \/ GetNextSong
        \/ ClearQueue
        \/ \E m \in CfgRepeatModes : CfgSetRepeatMode(m))
         => config'.volume = config.volume]_vars

\* C36: a handle that runs out has the queue-advance callback of play_song
\* called exactly once, whether play_song started it or a successful
\* PlaybackService.apply_filters_to_current_song rebuilt it, so the queue goes
\* on or finishes after a rebuilt track as after an original one.
SongEndCallsAfterOnce ==
    [][CfgSongEnd => psRet'.calls = <<"after_callback">>]_vars

\* C31: PlaybackCog shares no playback state between guilds: while the second
\* guild is connected, no _play_next, stop_player or
\* apply_filters_to_current_song run for the first guild changes the current
\* song, the stored original queue, or the persisted queue and repeat mode
\* that the same operations then read for the second guild.
GuildsShareNothing ==
    [][(/\ cogOther.vc.connected
        /\ \/ CogPlay(1, TRUE)
           \/ CogStop
           \/ \E cb \in BagToSet(cogCbs) : CogAfterPlayback(cb, TRUE)
           \/ CogApplyFilters
           \/ \E t \in BagToSet(cogTasks) : CogApplyResume(t, "ok"))
         => /\ OtherWorld'.current = OtherWorld.current
            /\ OtherWorld'.original = OtherWorld.original
            /\ OtherWorld'.config = OtherWorld.config]_vars

\* C40: MusicService.stop is final until the next user request: while stop is
\* the last command the guild was given, a round of
\* _background_loading_worker of a playlist load still running adds no track
\* to the playlist and starts no playback.
StopIsFinal ==
    [][(BackgroundLoadingWorker /\ msRet.op = "stop")
         => /\ playlist'.tracks = <<>>
            /\ UNCHANGED <<players, reg, vc, tasks>>]_vars
====
